---- MODULE Spec2Model ----
(***************************************************************************)
(* Orchestration core of pkg/cluster: NodeManager (node registry and       *)
(* capacity-aware selection), TaskManager (task registry, dispatch queue,  *)
(* worker pool), Scheduler sweep, HealthChecker and ClusterManager         *)
(* (Initialize, ScaleWorkers, HandleNodeFailure).                          *)
(*                                                                         *)
(* Go maps are functions whose DOMAIN is the set of keys present.  The     *)
(* registries hold pointers: a goroutine that keeps a pointer to an entry  *)
(* which was since replaced or deleted holds a detached object; such a     *)
(* reference is modelled as a frozen copy (Ref, Detach).                   *)
(***************************************************************************)
EXTENDS Integers, Sequences, FiniteSets, TLC

\* ------------------------------------------------------------------ bounds
MaxTime == 1          \* the clock runs 0..MaxTime
MaxScalers == 1       \* concurrent ScaleWorkers invocations
MaxTarget == 2        \* largest ScaleWorkers target
QueueCap == 2         \* capacity of the dispatch queue (1000 in NewTaskManager)
NumWorkers == 1       \* pool workers (5 in NewTaskManager)
MaxDeferred == 1      \* deferred enqueue goroutines alive at once
MaxPending == 2       \* completion goroutines asleep per task identity
MaxSelectCalls == 1   \* CreateTask calls in one run of the selection specification
MaxOps == 4           \* calls and probe failures the environment makes in one run
MaxFailoverOps == 5   \* calls in one run of the failover specification
ScaleCallers == 2     \* concurrent ScaleWorkers invocations in the scaling specification
MaxScaleOps == 5      \* calls in one run of the scaling specification
PoolWorkers == 2      \* pool workers in the specification of the worker pool

VARIABLES
    now,        \* time.Now().UnixNano() / 16^9: fmt.Sprintf("node-%x", ns)[:12] keeps
                \* the 7 leading hex digits of a 16-digit value, so every instant
                \* of one window of 16^9 ns yields the same identity
    nodes,      \* NodeManager.nodes : map[string]*Node
    nmLock,     \* NodeManager.mu : "free", "dead" once a holder blocks on itself, or
                \* the position of the GetClusterStats that holds the read lock and
                \* the writer waiting in mu.Lock behind it
    started,    \* ClusterManager.started
    cmLock,     \* ClusterManager.mu : "free", "dead" once a holder blocks on itself,
                \* or "read" while GetClusterInfo holds the read lock
    scalers,    \* ScaleWorkers invocations in flight
    ret,        \* result of the call that made the last step
    healthData, \* HealthChecker.healthData : map[string]*NodeHealth, each entry with
                \* the UpdateNodeStatus call its checkNodeHealth goroutine has
                \* decided on and not yet made ("" when there is none)
    closed,     \* the stop channels (ClusterManager.shutdown and the stopChan of the
                \* Scheduler, the DiscoveryService and the HealthChecker) are closed
    tasks,      \* TaskManager.tasks : map[string]*Task
    tmLock,     \* TaskManager.mu : "free", or the identity of the clone a RestartTask
                \* that holds the lock is waiting to put on the full queue
    queue,      \* TaskManager.queue : buffered channel of *Task
    deferred,   \* goroutines of CreateTask blocked on `tm.queue <- task`
    wk,         \* the pool workers: position in processTask, task and node held
    completions,\* completion goroutines of sendTaskToNode still asleep, per task ID
    sweep,      \* Pending tasks a Scheduler sweep still has to visit
    hnf,        \* HandleNodeFailure invocation in flight
    panicked,   \* a goroutine dereferenced a nil *Task: the process is gone
    ops         \* calls made by the callers of the cluster so far

nodeVars == <<now, nodes, nmLock, started, cmLock, scalers, ret, healthData, closed>>
taskVars == <<tasks, tmLock, queue, deferred, wk, completions, sweep, hnf, panicked>>
vars == <<now, nodes, nmLock, started, cmLock, scalers, ret, healthData, closed,
          tasks, tmLock, queue, deferred, wk, completions, sweep, hnf, panicked, ops>>

\* ------------------------------------------------------------- node types
RoleManager == "manager"
RoleWorker == "worker"
RoleAgent == "agent"

StatusReady == "ready"
StatusActive == "active"
StatusDraining == "draining"
StatusDown == "down"
StatusUnknown == "unknown"

NoRet == [op |-> "", id |-> "", err |-> ""]
Ret(op, id, err) == [op |-> op, id |-> id, err |-> err]

Gi == 1    \* memory and disk are counted in GiB

\* generateNodeID: "node-" and the leading hex digits of the clock
generateNodeID == "node-" \o ToString(now)

Node(id, role, status, cpu, memory, disk) ==
    [id |-> id, name |-> "host", address |-> "10.0.0.1", port |-> 2376,
     role |-> role, status |-> status,
     cpu |-> cpu, memory |-> memory, disk |-> disk,
     createdAt |-> 0]

\* ClusterManager.getLocalResources / registerLocalNode
LocalNode == Node(generateNodeID, RoleManager, StatusActive, 4000, 8 * Gi, 100 * Gi)

\* ClusterManager.addWorkerNode
WorkerNode == Node(generateNodeID, RoleWorker, StatusReady, 2000, 4 * Gi, 50 * Gi)

\* ------------------------------------------------------------ NodeManager
validateNode(node) ==
    IF node.id = "" THEN "validation"
    ELSE IF node.name = "" THEN "validation"
    ELSE IF node.address = "" THEN "validation"
    ELSE IF node.port <= 0 \/ node.port > 65535 THEN "validation"
    ELSE IF node.role \notin {RoleManager, RoleWorker, RoleAgent} THEN "validation"
    ELSE IF node.cpu <= 0 THEN "validation"
    ELSE IF node.memory <= 0 THEN "validation"
    ELSE IF node.disk <= 0 THEN "validation"
    ELSE "ok"

Perms(S) ==
    {s \in [1..Cardinality(S) -> S] : \A i, j \in 1..Cardinality(S) : i # j => s[i] # s[j]}

Put(map, key, val) == [k \in DOMAIN map \cup {key} |-> IF k = key THEN val ELSE map[k]]
Delete(map, key) == [k \in DOMAIN map \ {key} |-> map[k]]

\* the registry after RegisterNode(node), and its error.  CreatedAt is the clock
\* for a new identity and the CreatedAt of the entry replaced otherwise.
RegisterNodeErr(node) == validateNode(node)

\* RegisterNode that stamps CreatedAt anew on every registration
RegisterNodeMapFresh(node) ==
    IF RegisterNodeErr(node) # "ok" THEN nodes
    ELSE Put(nodes, node.id, [node EXCEPT !.createdAt = now])

RegisterNodeMap(node) ==
    IF RegisterNodeErr(node) # "ok" THEN nodes
    ELSE Put(nodes, node.id,
             [node EXCEPT !.createdAt = IF node.id \in DOMAIN nodes
                                        THEN nodes[node.id].createdAt ELSE now])

NoNode == [id |-> ""]
GetNode(id) ==
    IF id \in DOMAIN nodes THEN [node |-> nodes[id], err |-> "ok"]
    ELSE [node |-> NoNode, err |-> "not found"]

RegisterNode(node) ==
    /\ nmLock = "free"
    /\ nodes' = RegisterNodeMap(node)
    /\ ret' = Ret("RegisterNode", node.id, RegisterNodeErr(node))
    /\ UNCHANGED <<now, healthData, closed, cmLock, nmLock, started, scalers>>

GetManagerNodes == {id \in DOMAIN nodes : nodes[id].role = RoleManager}
GetWorkerNodes == {id \in DOMAIN nodes : nodes[id].role = RoleWorker}

\* UnregisterNode holds mu.Lock and, for a manager-role node, calls
\* GetManagerNodes, which takes mu.RLock of the same RWMutex: the call blocks on
\* itself for ever and the lock is never released.
UnregisterNode(id) ==
    /\ nmLock = "free"
    /\ IF id \notin DOMAIN nodes
       THEN /\ ret' = Ret("UnregisterNode", id, "not found")
            /\ UNCHANGED <<nodes, nmLock>>
       ELSE IF nodes[id].role = RoleManager
       THEN /\ nmLock' = "dead"
            /\ ret' = NoRet
            /\ UNCHANGED nodes
       ELSE /\ nodes' = Delete(nodes, id)
            /\ ret' = Ret("UnregisterNode", id, "ok")
            /\ UNCHANGED nmLock
    /\ UNCHANGED <<now, healthData, closed, cmLock, started, scalers>>

UpdateNodeStatusMap(id, status) ==
    IF id \in DOMAIN nodes THEN [nodes EXCEPT ![id].status = status] ELSE nodes

\* DrainNode without the test `node.Role == RoleManager`
DrainNodeUnguarded(id) ==
    /\ nmLock = "free"
    /\ IF id \notin DOMAIN nodes
       THEN ret' = Ret("DrainNode", id, "not found") /\ UNCHANGED nodes
       ELSE ret' = Ret("DrainNode", id, "ok")
            /\ nodes' = [nodes EXCEPT ![id].status = StatusDraining]
    /\ UNCHANGED <<now, healthData, closed, cmLock, nmLock, started, scalers>>

DrainNode(id) ==
    /\ nmLock = "free"
    /\ IF id \notin DOMAIN nodes
       THEN ret' = Ret("DrainNode", id, "not found") /\ UNCHANGED nodes
       ELSE IF nodes[id].role = RoleManager
       THEN ret' = Ret("DrainNode", id, "constraint") /\ UNCHANGED nodes
       ELSE ret' = Ret("DrainNode", id, "ok")
            /\ nodes' = [nodes EXCEPT ![id].status = StatusDraining]
    /\ UNCHANGED <<now, healthData, closed, cmLock, nmLock, started, scalers>>

ActivateNode(id) ==
    /\ nmLock = "free"
    /\ IF id \notin DOMAIN nodes
       THEN ret' = Ret("ActivateNode", id, "not found") /\ UNCHANGED nodes
       ELSE ret' = Ret("ActivateNode", id, "ok")
            /\ nodes' = [nodes EXCEPT ![id].status = StatusActive]
    /\ UNCHANGED <<now, healthData, closed, cmLock, nmLock, started, scalers>>

UpdateNodeResourcesMap(id, res) ==
    IF id \in DOMAIN nodes
    THEN [nodes EXCEPT ![id].cpu = res.cpu, ![id].memory = res.memory, ![id].disk = res.disk]
    ELSE nodes

UpdateNodeResources(id, res) ==
    /\ nmLock = "free"
    /\ nodes' = UpdateNodeResourcesMap(id, res)
    /\ ret' = Ret("UpdateNodeResources", id, IF id \in DOMAIN nodes THEN "ok" ELSE "not found")
    /\ UNCHANGED <<now, healthData, closed, cmLock, nmLock, started, scalers>>

\* ------------------------------------------------------------ TaskManager
TaskNew == "new"
TaskPending == "pending"
TaskAssigned == "assigned"
TaskRunning == "running"
TaskComplete == "complete"
TaskFailed == "failed"

generateTaskID == "task-" \o ToString(now)

Task(id, cpu, memory, disk) ==
    [id |-> id, name |-> "web", image |-> "nginx",
     cpu |-> cpu, memory |-> memory, disk |-> disk,
     status |-> "", nodeID |-> "", desired |-> "",
     startedAt |-> FALSE, completedAt |-> FALSE]

\* validateTask without the test of Resources.Memory
validateTaskNoMemory(task) ==
    IF task.id = "" THEN "validation"
    ELSE IF task.name = "" THEN "validation"
    ELSE IF task.image = "" THEN "validation"
    ELSE IF task.cpu <= 0 THEN "validation"
    ELSE "ok"

validateTask(task) ==
    IF task.id = "" THEN "validation"
    ELSE IF task.name = "" THEN "validation"
    ELSE IF task.image = "" THEN "validation"
    ELSE IF task.cpu <= 0 THEN "validation"
    ELSE IF task.memory <= 0 THEN "validation"
    ELSE "ok"

\* A *Task held outside the registry.  live: it is the object tm.tasks[id] holds.
\* Otherwise obj is the object itself, as it was when the registry let go of it;
\* nothing reads what is written to it afterwards.
NoObj == [id |-> ""]
TRef(id) == [id |-> id, live |-> TRUE, obj |-> NoObj]
Deref(r) == IF r.live THEN tasks[r.id] ELSE r.obj

\* the fields processTask reads from its pointer: ID and Resources
Request(t) ==
    [t EXCEPT !.status = "", !.nodeID = "", !.desired = "",
              !.startedAt = FALSE, !.completedAt = FALSE]

\* r after the registry (map) stopped holding the object of id
Detach(r, id, map) ==
    IF r.live /\ r.id = id /\ id \in DOMAIN map
    THEN [id |-> id, live |-> FALSE, obj |-> Request(map[id])] ELSE r
DetachFull(r, id, map) ==
    IF r.live /\ r.id = id /\ id \in DOMAIN map
    THEN [id |-> id, live |-> FALSE, obj |-> map[id]] ELSE r

DetachSeq(q, id, map) == [i \in DOMAIN q |-> Detach(q[i], id, map)]
DetachWk(id, map) == [w \in DOMAIN wk |-> [wk[w] EXCEPT !.ref = Detach(wk[w].ref, id, map)]]
DetachSet(S, id, map) == {DetachFull(r, id, map) : r \in S}

WIdle == [pc |-> "idle", ref |-> TRef(""), node |-> ""]
HIdle == [active |-> FALSE, node |-> "", todo |-> {}, blocked |-> FALSE]

CreateTask(task) ==
    /\ tmLock = "free"
    /\ IF validateTask(task) # "ok"
       THEN /\ ret' = Ret("CreateTask", task.id, validateTask(task))
            /\ UNCHANGED <<tasks, queue, deferred, wk, sweep, hnf>>
       ELSE /\ tasks' = Put(tasks, task.id,
                            [task EXCEPT !.status = TaskNew, !.desired = TaskRunning])
            /\ wk' = DetachWk(task.id, tasks)
            /\ sweep' = DetachSet(sweep, task.id, tasks)
            /\ hnf' = [hnf EXCEPT !.todo = DetachSet(hnf.todo, task.id, tasks)]
            /\ IF Len(queue) < QueueCap
               THEN /\ queue' = Append(DetachSeq(queue, task.id, tasks), TRef(task.id))
                    /\ deferred' = DetachSeq(deferred, task.id, tasks)
               ELSE /\ Len(deferred) < MaxDeferred
                    /\ queue' = DetachSeq(queue, task.id, tasks)
                    /\ deferred' = Append(DetachSeq(deferred, task.id, tasks), TRef(task.id))
            /\ ret' = Ret("CreateTask", task.id, "ok")
    /\ UNCHANGED <<now, healthData, closed, cmLock, nodes, nmLock, started, scalers, panicked, tmLock, completions>>

\* the goroutine CreateTask leaves behind when the queue is full
DeferredEnqueue(i) ==
    /\ i \in DOMAIN deferred
    /\ Len(queue) < QueueCap
    /\ queue' = Append(queue, deferred[i])
    /\ deferred' = [j \in 1..(Len(deferred) - 1) |-> IF j < i THEN deferred[j] ELSE deferred[j + 1]]
    /\ ret' = NoRet
    /\ UNCHANGED <<now, healthData, closed, cmLock, nodes, nmLock, started, scalers, panicked, tasks, tmLock, wk, completions, sweep, hnf>>

\* RemoveTask without the test `task.Status == TaskRunning`
RemoveTaskErrUnguarded(id) ==
    IF id \notin DOMAIN tasks THEN "not found" ELSE "ok"

RemoveTaskErr(id) ==
    IF id \notin DOMAIN tasks THEN "not found"
    ELSE IF tasks[id].status = TaskRunning THEN "constraint"
    ELSE "ok"

RemoveTask(id) ==
    /\ tmLock = "free"
    /\ ret' = Ret("RemoveTask", id, RemoveTaskErr(id))
    /\ IF RemoveTaskErr(id) # "ok"
       THEN UNCHANGED <<tasks, queue, deferred, wk, sweep, hnf>>
       ELSE /\ tasks' = Delete(tasks, id)
            /\ queue' = DetachSeq(queue, id, tasks)
            /\ deferred' = DetachSeq(deferred, id, tasks)
            /\ wk' = DetachWk(id, tasks)
            /\ sweep' = DetachSet(sweep, id, tasks)
            /\ hnf' = [hnf EXCEPT !.todo = DetachSet(hnf.todo, id, tasks)]
    /\ UNCHANGED <<now, healthData, closed, cmLock, nodes, nmLock, started, scalers, panicked, tmLock, completions>>

\* the registry after UpdateTask(id, updates): Name and DesiredState, when set
UpdateTaskMap(id, name, desired) ==
    IF id \notin DOMAIN tasks THEN tasks
    ELSE [tasks EXCEPT ![id].name = IF name # "" THEN name ELSE @,
                       ![id].desired = IF desired # "" THEN desired ELSE @]

UpdateTask(id, name, desired) ==
    /\ tmLock = "free"
    /\ tasks' = UpdateTaskMap(id, name, desired)
    /\ ret' = Ret("UpdateTask", id, IF id \in DOMAIN tasks THEN "ok" ELSE "not found")
    /\ UNCHANGED <<now, healthData, closed, cmLock, nodes, nmLock, started, scalers, panicked,
                   tmLock, queue, deferred, wk, completions, sweep, hnf>>

StartTask(id) == UpdateTask(id, "", TaskRunning)
StopTask(id) == UpdateTask(id, "", TaskComplete)

\* RestartTask, the registry: the task is stopped, its copy stored under a new ID
RestartStopped(id) == [tasks EXCEPT ![id].desired = TaskComplete]
RestartClone(id) ==
    [RestartStopped(id)[id] EXCEPT !.id = generateTaskID, !.status = TaskNew,
                                   !.desired = TaskRunning,
                                   !.startedAt = FALSE, !.completedAt = FALSE]
RestartTaskMap(id) == Put(RestartStopped(id), RestartClone(id).id, RestartClone(id))

\* RestartTask(id) for a task in the registry, up to `tm.queue <- &newTask`, which
\* blocks with mu held when the queue is full
RestartTaskDo(id, todo, byHnf) ==
    LET newID == RestartClone(id).id
        old == RestartStopped(id)
    IN  /\ tasks' = RestartTaskMap(id)
        /\ wk' = DetachWk(newID, old)
        /\ sweep' = DetachSet(sweep, newID, old)
        /\ deferred' = DetachSeq(deferred, newID, old)
        /\ IF Len(queue) < QueueCap
           THEN /\ queue' = Append(DetachSeq(queue, newID, old), TRef(newID))
                /\ tmLock' = "free"
                /\ hnf' = [hnf EXCEPT !.todo = DetachSet(todo, newID, old)]
           ELSE /\ queue' = DetachSeq(queue, newID, old)
                /\ tmLock' = newID
                /\ hnf' = [hnf EXCEPT !.todo = DetachSet(todo, newID, old), !.blocked = byHnf]

RestartTask(id) ==
    /\ tmLock = "free"
    /\ IF id \notin DOMAIN tasks
       THEN /\ ret' = Ret("RestartTask", id, "not found")
            /\ UNCHANGED <<tasks, tmLock, queue, deferred, wk, sweep, hnf>>
       ELSE /\ RestartTaskDo(id, hnf.todo, FALSE)
            /\ ret' = IF Len(queue) < QueueCap THEN Ret("RestartTask", id, "ok") ELSE NoRet
    /\ UNCHANGED <<now, healthData, closed, cmLock, nodes, nmLock, started, scalers, panicked, completions>>

\* the blocked send of RestartTask completes once a worker made room
RestartTaskUnblock ==
    /\ tmLock # "free"
    /\ Len(queue) < QueueCap
    /\ queue' = Append(queue, TRef(tmLock))
    /\ tmLock' = "free"
    /\ hnf' = [hnf EXCEPT !.blocked = FALSE]
    /\ ret' = IF hnf.blocked THEN NoRet ELSE Ret("RestartTask", "", "ok")
    /\ UNCHANGED <<now, healthData, closed, cmLock, nodes, nmLock, started, scalers, panicked, tasks, deferred, wk, completions, sweep>>

updateTaskStatusMap(id, status) ==
    IF id \in DOMAIN tasks THEN [tasks EXCEPT ![id].status = status] ELSE tasks

\* ---------------------------------------------------------- HealthChecker
\* the simulated probes of checkResourceAvailability, checkDiskSpace and
\* checkNetworkConnectivity read fixed usage figures
checkResourceAvailability ==
    LET cpuUsage == 50  memoryUsage == 60  diskUsage == 30
    IN  IF cpuUsage < 90 /\ memoryUsage < 90 /\ diskUsage < 90 THEN "passed" ELSE "failed"

checkDiskSpace ==
    LET diskUsage == 30
    IN  IF diskUsage < 85 THEN "passed" ELSE IF diskUsage < 95 THEN "warning" ELSE "failed"

checkNetworkConnectivity ==
    LET networkLatency == 10
    IN  IF networkLatency < 100 THEN "passed"
        ELSE IF networkLatency < 500 THEN "warning" ELSE "failed"

\* calculateOverallHealth without the count of warnings
calculateOverallHealthNoWarning(checks) ==
    LET failedCount == Cardinality({i \in DOMAIN checks : checks[i] = "failed"})
    IN  IF failedCount > 0 THEN StatusDown
        ELSE StatusReady

calculateOverallHealth(checks) ==
    LET failedCount == Cardinality({i \in DOMAIN checks : checks[i] = "failed"})
        warningCount == Cardinality({i \in DOMAIN checks : checks[i] = "warning"})
    IN  IF failedCount > 0 THEN StatusDown
        ELSE IF warningCount > 0 THEN StatusUnknown
        ELSE StatusReady

\* checkNodeHealth from the results of its four probes on: the overall status is
\* stored in healthData, and the status of the node updated
checkNodeHealthProbes(id, checks) ==
    /\ ~closed
    /\ nmLock = "free"
    /\ id \in DOMAIN nodes
    /\ LET health == calculateOverallHealth(checks)
       IN  /\ healthData' = Put(healthData, id,
                                  [checks |-> checks, status |-> health, update |-> ""])
           /\ IF health = StatusDown
              THEN nodes' = UpdateNodeStatusMap(id, StatusDown)
              ELSE IF nodes[id].status = StatusDown /\ health = StatusReady
              THEN nodes' = UpdateNodeStatusMap(id, StatusReady)
              ELSE UNCHANGED nodes
    /\ ret' = NoRet
    /\ UNCHANGED <<now, closed, cmLock, nmLock, started, scalers>>

\* checkAllNodes runs checkNodeHealth for every node ListNodes returns
checkNodeHealth(id, api) ==
    checkNodeHealthProbes(
        id, <<api, checkResourceAvailability, checkDiskSpace, checkNetworkConnectivity>>)

\* checkNodeHealth step by step. First step: the probes, the store into
\* healthData, and the tests of health.Status and of node.Status, which is read
\* without NodeManager.mu
checkNodeHealthDecide(id, api) ==
    /\ ~closed
    /\ id \in DOMAIN nodes
    /\ id \in DOMAIN healthData => healthData[id].update = ""
    /\ LET checks == <<api, checkResourceAvailability, checkDiskSpace, checkNetworkConnectivity>>
           health == calculateOverallHealth(checks)
           update == IF health = StatusDown THEN StatusDown
                     ELSE IF nodes[id].status = StatusDown /\ health = StatusReady
                     THEN StatusReady
                     ELSE ""
       IN  healthData' = Put(healthData, id,
                             [checks |-> checks, status |-> health, update |-> update])
    /\ ret' = NoRet
    /\ UNCHANGED <<now, nodes, closed, cmLock, nmLock, started, scalers>>

\* Second step: hc.nodeManager.UpdateNodeStatus(node.ID, status), under mu.Lock
checkNodeHealthUpdate(id) ==
    /\ id \in DOMAIN healthData
    /\ healthData[id].update # ""
    /\ nmLock = "free"
    /\ nodes' = UpdateNodeStatusMap(id, healthData[id].update)
    /\ healthData' = [healthData EXCEPT ![id].update = ""]
    /\ ret' = NoRet
    /\ UNCHANGED <<now, closed, cmLock, nmLock, started, scalers>>

\* --------------------------------------------------------- ClusterManager
Initialize ==
    /\ cmLock = "free"
    /\ IF started
       THEN ret' = Ret("Initialize", "", "already initialized") /\ UNCHANGED <<nodes, started>>
       ELSE /\ nmLock = "free"
            /\ nodes' = RegisterNodeMap(LocalNode)
            /\ started' = TRUE
            /\ ret' = Ret("Initialize", LocalNode.id, "ok")
    /\ UNCHANGED <<now, healthData, closed, cmLock, nmLock, scalers>>

\* Shutdown without the assignment `cm.started = false`
ShutdownKeepsStarted ==
    /\ cmLock = "free"
    /\ IF ~started
       THEN /\ ret' = Ret("Shutdown", "", "not initialized")
            /\ UNCHANGED <<started, closed, panicked>>
       ELSE IF closed
       THEN /\ panicked' = TRUE
            /\ ret' = Ret("Shutdown", "", "panic")
            /\ UNCHANGED <<started, closed>>
       ELSE /\ closed' = TRUE
            /\ ret' = Ret("Shutdown", "", "ok")
            /\ UNCHANGED <<started, panicked>>
    /\ UNCHANGED <<now, healthData, cmLock, nodes, nmLock, scalers,
                   tasks, tmLock, queue, deferred, wk, completions, sweep, hnf>>

\* Shutdown closes cm.shutdown and, through the Stop of each component, the
\* stopChan of the Scheduler, of the DiscoveryService and of the HealthChecker.
\* Nothing makes these channels anew: a Shutdown after a second Initialize closes
\* the closed cm.shutdown, which panics.
Shutdown ==
    /\ cmLock = "free"
    /\ IF ~started
       THEN /\ ret' = Ret("Shutdown", "", "not initialized")
            /\ UNCHANGED <<started, closed, panicked>>
       ELSE IF closed
       THEN /\ panicked' = TRUE
            /\ ret' = Ret("Shutdown", "", "panic")
            /\ UNCHANGED <<started, closed>>
       ELSE /\ closed' = TRUE
            /\ started' = FALSE
            /\ ret' = Ret("Shutdown", "", "ok")
            /\ UNCHANGED panicked
    /\ UNCHANGED <<now, healthData, cmLock, nodes, nmLock, scalers,
                   tasks, tmLock, queue, deferred, wk, completions, sweep, hnf>>

\* JoinCluster holds cm.mu.Lock and calls Initialize, which takes cm.mu.Lock of the
\* same RWMutex: the call blocks on itself for ever and the lock is never released.
JoinCluster(joinToken) ==
    /\ cmLock = "free"
    /\ IF started
       THEN ret' = Ret("JoinCluster", "", "already initialized") /\ UNCHANGED cmLock
       ELSE IF joinToken = ""
       THEN ret' = Ret("JoinCluster", "", "join token is required") /\ UNCHANGED cmLock
       ELSE cmLock' = "dead" /\ ret' = NoRet
    /\ UNCHANGED <<now, healthData, closed, nodes, nmLock, started, scalers>>

runningTasks == Cardinality({id \in DOMAIN tasks : tasks[id].status = TaskRunning})

\* LeaveCluster holds cm.mu.Lock and, once its tests passed or were skipped, calls
\* Shutdown, which takes cm.mu.Lock of the same RWMutex and blocks for ever.
LeaveCluster(force) ==
    /\ cmLock = "free"
    /\ IF ~started
       THEN ret' = Ret("LeaveCluster", "", "not initialized") /\ UNCHANGED cmLock
       ELSE IF ~force /\ nmLock # "free"
       THEN FALSE
       ELSE IF ~force /\ Cardinality(GetManagerNodes) <= 1
       THEN ret' = Ret("LeaveCluster", "", "last manager") /\ UNCHANGED cmLock
       ELSE IF ~force /\ tmLock # "free"
       THEN FALSE
       ELSE IF ~force /\ runningTasks > 0
       THEN ret' = Ret("LeaveCluster", "", "tasks are still running") /\ UNCHANGED cmLock
       ELSE cmLock' = "dead" /\ ret' = NoRet
    /\ UNCHANGED <<now, healthData, closed, nodes, nmLock, started, scalers>>

Idle == [pc |-> "idle", target |-> 0, i |-> 0, cur |-> <<>>]

\* ScaleWorkers up to the first loop test
ScaleWorkersStart(p, target) ==
    /\ scalers[p].pc = "idle"
    /\ cmLock = "free"
    /\ IF ~started
       THEN ret' = Ret("ScaleWorkers", "", "not initialized") /\ UNCHANGED scalers
       ELSE /\ nmLock = "free"
            /\ \E cur \in Perms(GetWorkerNodes) :
                 LET n == Len(cur)
                 IN  IF target = n
                     THEN ret' = Ret("ScaleWorkers", "", "ok") /\ UNCHANGED scalers
                     ELSE /\ scalers' = [scalers EXCEPT ![p] =
                               [pc |-> IF target > n THEN "up" ELSE "down",
                                target |-> target, i |-> n, cur |-> cur]]
                          /\ ret' = NoRet
    /\ UNCHANGED <<now, healthData, closed, cmLock, nodes, nmLock, started>>

\* one iteration of the scale-up loop: addWorkerNode
ScaleWorkersUp(p) ==
    LET s == scalers[p]
    IN  /\ s.pc = "up"
        /\ nmLock = "free"
        /\ nodes' = RegisterNodeMap(WorkerNode)
        /\ IF s.i + 1 < s.target
           THEN scalers' = [scalers EXCEPT ![p].i = s.i + 1] /\ ret' = NoRet
           ELSE scalers' = [scalers EXCEPT ![p] = Idle] /\ ret' = Ret("ScaleWorkers", "", "ok")
        /\ UNCHANGED <<now, healthData, closed, cmLock, nmLock, started>>

\* one iteration of the scale-down loop: removeWorkerNode of the last worker
ScaleWorkersDown(p) ==
    LET s == scalers[p]
        worker == s.cur[Len(s.cur)]
        next(cur) == IF s.i - 1 > s.target
                     THEN [scalers EXCEPT ![p].i = s.i - 1, ![p].cur = cur]
                     ELSE [scalers EXCEPT ![p] = Idle]
        result == IF s.i - 1 > s.target THEN NoRet ELSE Ret("ScaleWorkers", "", "ok")
    IN  /\ s.pc = "down"
        /\ IF Len(s.cur) <= 1
           THEN /\ scalers' = [scalers EXCEPT ![p] = Idle]
                /\ ret' = Ret("ScaleWorkers", "", "ok")
                /\ UNCHANGED <<nodes, nmLock>>
           ELSE /\ nmLock = "free"
                /\ IF worker \notin DOMAIN nodes
                   THEN scalers' = next(s.cur) /\ ret' = result /\ UNCHANGED <<nodes, nmLock>>
                   ELSE IF nodes[worker].role = RoleManager
                   THEN nmLock' = "dead" /\ ret' = NoRet /\ UNCHANGED <<nodes, scalers>>
                   ELSE /\ nodes' = Delete(nodes, worker)
                        /\ scalers' = next(SubSeq(s.cur, 1, Len(s.cur) - 1))
                        /\ ret' = result
                        /\ UNCHANGED nmLock
        /\ UNCHANGED <<now, healthData, closed, cmLock, started>>

Tick ==
    /\ now < MaxTime
    /\ now' = now + 1
    /\ ret' = NoRet
    /\ UNCHANGED <<nodes, nmLock, started, cmLock, scalers, healthData, closed>>

\* ------------------------------------------------- NodeManager: selection
\* nodeHasCapacity without the comparison of Disk
nodeHasCapacityNoDisk(node, task) ==
    /\ node.cpu >= task.cpu
    /\ node.memory >= task.memory

\* nodeHasCapacity without the comparison of CPU
nodeHasCapacityNoCPU(node, task) ==
    /\ node.memory >= task.memory
    /\ node.disk >= task.disk

nodeHasCapacity(node, task) ==
    /\ node.cpu >= task.cpu
    /\ node.memory >= task.memory
    /\ node.disk >= task.disk

Qualifies(id, task) ==
    /\ nodes[id].status \in {StatusReady, StatusActive}
    /\ nodeHasCapacity(nodes[id], task)

Candidates(task) == {id \in DOMAIN nodes : Qualifies(id, task)}

\* totalScore = (cpuScore + memoryScore) / 2.0, as the exact fraction
\* ScoreNum / (2 * ScoreDen)
ScoreNum(node, task) ==
    (node.cpu - task.cpu) * node.memory + (node.memory - task.memory) * node.cpu
ScoreDen(node) == node.cpu * node.memory

\* the comparison of selectNodeByResources turned round
ScoreLess(a, b, task) == ScoreNum(a, task) * ScoreDen(b) < ScoreNum(b, task) * ScoreDen(a)

\* totalScore(a) > totalScore(b); the denominators of candidates are positive
ScoreGreater(a, b, task) == ScoreNum(a, task) * ScoreDen(b) > ScoreNum(b, task) * ScoreDen(a)

\* the loop of selectNodeByResources over the candidates in iteration order,
\* from position i with bestNode = best ("" while bestScore is still -1.0)
RECURSIVE selectLoop(_, _, _, _)
selectLoop(order, task, i, best) ==
    IF i > Len(order) THEN best
    ELSE IF best = "" \/ ScoreGreater(nodes[order[i]], nodes[best], task)
         THEN selectLoop(order, task, i + 1, order[i])
         ELSE selectLoop(order, task, i + 1, best)

selectNodeByResources(order, task) == selectLoop(order, task, 1, "")

\* the nodes SelectNodeForTask may return: Go iterates a map in any order.
\* The empty set stands for the error "no available nodes"
SelectNodeForTask(task) ==
    IF Candidates(task) = {} THEN {}
    ELSE {selectNodeByResources(order, task) : order \in Perms(Candidates(task))}

\* ------------------------------------------------- TaskManager: the pool
\* worker: task := <-tm.queue
WorkerDequeue(w) ==
    /\ wk[w].pc = "idle"
    /\ queue # <<>>
    /\ wk' = [wk EXCEPT ![w] = [pc |-> "pending", ref |-> Head(queue), node |-> ""]]
    /\ queue' = Tail(queue)
    /\ ret' = NoRet
    /\ UNCHANGED <<now, healthData, closed, cmLock, nodes, nmLock, started, scalers, panicked,
                   tasks, tmLock, deferred, completions, sweep, hnf>>

\* processTask: updateTaskStatus(task.ID, TaskPending)
WorkerPending(w) ==
    /\ wk[w].pc = "pending"
    /\ tmLock = "free"
    /\ tasks' = updateTaskStatusMap(wk[w].ref.id, TaskPending)
    /\ wk' = [wk EXCEPT ![w].pc = "select"]
    /\ ret' = NoRet
    /\ UNCHANGED <<now, healthData, closed, cmLock, nodes, nmLock, started, scalers, panicked,
                   tmLock, queue, deferred, completions, sweep, hnf>>

\* processTask: SelectNodeForTask(task)
WorkerSelect(w) ==
    /\ wk[w].pc = "select"
    /\ nmLock = "free"
    /\ LET sel == SelectNodeForTask(Deref(wk[w].ref))
       IN  IF sel = {} THEN wk' = [wk EXCEPT ![w].pc = "fail"]
           ELSE \E n \in sel : wk' = [wk EXCEPT ![w].pc = "assign", ![w].node = n]
    /\ ret' = NoRet
    /\ UNCHANGED <<now, healthData, closed, cmLock, nodes, nmLock, started, scalers, panicked,
                   tasks, tmLock, queue, deferred, completions, sweep, hnf>>

\* processTask: selection failed, updateTaskStatus(task.ID, TaskFailed); return
WorkerFail(w) ==
    /\ wk[w].pc = "fail"
    /\ tmLock = "free"
    /\ tasks' = updateTaskStatusMap(wk[w].ref.id, TaskFailed)
    /\ wk' = [wk EXCEPT ![w] = WIdle]
    /\ ret' = NoRet
    /\ UNCHANGED <<now, healthData, closed, cmLock, nodes, nmLock, started, scalers, panicked,
                   tmLock, queue, deferred, completions, sweep, hnf>>

\* processTask with a reservation: the request of the task taken off the
\* Resources of the node it is assigned to
WorkerAssignReserves(w) ==
    /\ wk[w].pc = "assign"
    /\ tasks' = IF wk[w].ref.live
                THEN [tasks EXCEPT ![wk[w].ref.id].nodeID = wk[w].node] ELSE tasks
    /\ nodes' = IF wk[w].node \in DOMAIN nodes
                THEN [nodes EXCEPT ![wk[w].node].cpu = @ - Deref(wk[w].ref).cpu,
                                   ![wk[w].node].memory = @ - Deref(wk[w].ref).memory,
                                   ![wk[w].node].disk = @ - Deref(wk[w].ref).disk]
                ELSE nodes
    /\ wk' = [wk EXCEPT ![w].pc = "assigned"]
    /\ ret' = NoRet
    /\ UNCHANGED <<now, healthData, closed, cmLock, nmLock, started, scalers, panicked,
                   tmLock, queue, deferred, completions, sweep, hnf>>

\* processTask: task.NodeID = node.ID, written through the pointer without mu
WorkerAssign(w) ==
    /\ wk[w].pc = "assign"
    /\ tasks' = IF wk[w].ref.live
                THEN [tasks EXCEPT ![wk[w].ref.id].nodeID = wk[w].node] ELSE tasks
    /\ wk' = [wk EXCEPT ![w].pc = "assigned"]
    /\ ret' = NoRet
    /\ UNCHANGED <<now, healthData, closed, cmLock, nodes, nmLock, started, scalers, panicked,
                   tmLock, queue, deferred, completions, sweep, hnf>>

Count(id) == IF id \in DOMAIN completions THEN completions[id] ELSE 0

\* processTask: updateTaskStatus(task.ID, TaskAssigned), then sendTaskToNode, which
\* starts the goroutine that completes the task and returns nil
WorkerAssigned(w) ==
    /\ wk[w].pc = "assigned"
    /\ tmLock = "free"
    /\ Count(wk[w].ref.id) < MaxPending
    /\ tasks' = updateTaskStatusMap(wk[w].ref.id, TaskAssigned)
    /\ completions' = Put(completions, wk[w].ref.id, Count(wk[w].ref.id) + 1)
    /\ wk' = [wk EXCEPT ![w].pc = "running"]
    /\ ret' = NoRet
    /\ UNCHANGED <<now, healthData, closed, cmLock, nodes, nmLock, started, scalers, panicked, tmLock, queue, deferred, sweep, hnf>>

\* processTask: updateTaskStatus(task.ID, TaskRunning); task.StartedAt = now
WorkerRunning(w) ==
    /\ wk[w].pc = "running"
    /\ tmLock = "free"
    /\ tasks' = LET m == updateTaskStatusMap(wk[w].ref.id, TaskRunning)
                IN  IF wk[w].ref.live THEN [m EXCEPT ![wk[w].ref.id].startedAt = TRUE] ELSE m
    /\ wk' = [wk EXCEPT ![w] = WIdle]
    /\ ret' = NoRet
    /\ UNCHANGED <<now, healthData, closed, cmLock, nodes, nmLock, started, scalers, panicked,
                   tmLock, queue, deferred, completions, sweep, hnf>>

\* the goroutine of sendTaskToNode, after its sleep.  Its `task, exists :=
\* tm.tasks[task.ID]` declares a new task, which is nil when the registry no longer
\* holds the identity; the log statement after the unlock then reads task.ID
\* through the nil pointer, and the panic ends the process.
TaskCompletion(id) ==
    /\ Count(id) > 0
    /\ tmLock = "free"
    /\ tasks' = IF id \in DOMAIN tasks
                THEN [tasks EXCEPT ![id].status = TaskComplete, ![id].completedAt = TRUE]
                ELSE tasks
    /\ panicked' = (id \notin DOMAIN tasks)
    /\ completions' = IF Count(id) = 1 THEN Delete(completions, id)
                      ELSE Put(completions, id, Count(id) - 1)
    /\ ret' = NoRet
    /\ UNCHANGED <<now, healthData, closed, cmLock, nodes, nmLock, started, scalers, tmLock, queue, deferred, wk, sweep, hnf>>

\* -------------------------------------------------------------- Scheduler
\* scheduleTasks: GetTasksByStatus(TaskPending)
scheduleTasksStart ==
    /\ started /\ ~closed
    /\ sweep = {}
    /\ tmLock = "free"
    /\ \E id \in DOMAIN tasks : tasks[id].status = TaskPending
    /\ sweep' = {TRef(id) : id \in {i \in DOMAIN tasks : tasks[i].status = TaskPending}}
    /\ ret' = NoRet
    /\ UNCHANGED <<now, healthData, closed, cmLock, nodes, nmLock, started, scalers, panicked,
                   tasks, tmLock, queue, deferred, wk, completions, hnf>>

\* scheduleTasks, one task of the loop: SelectNodeForTask, task.NodeID = node.ID,
\* UpdateTask(task.ID, task)
scheduleTasksVisit(r) ==
    /\ r \in sweep
    /\ nmLock = "free"
    /\ sweep' = sweep \ {r}
    /\ LET sel == SelectNodeForTask(Deref(r))
       IN  IF sel = {} THEN UNCHANGED tasks
           ELSE /\ tmLock = "free"
                /\ \E n \in sel :
                     tasks' = IF r.live THEN [tasks EXCEPT ![r.id].nodeID = n]
                              ELSE UpdateTaskMap(r.id, r.obj.name, r.obj.desired)
    /\ ret' = NoRet
    /\ UNCHANGED <<now, healthData, closed, cmLock, nodes, nmLock, started, scalers, panicked,
                   tmLock, queue, deferred, wk, completions, hnf>>

\* ------------------------------------------ ClusterManager: node failure
\* HandleNodeFailure up to the loop: GetNode, UpdateNodeStatus, GetTasksByNode
HandleNodeFailureStart(nodeID) ==
    /\ ~hnf.active
    /\ nmLock = "free"
    /\ IF nodeID \notin DOMAIN nodes
       THEN /\ ret' = Ret("HandleNodeFailure", nodeID, "not found")
            /\ UNCHANGED <<nodes, hnf>>
       ELSE /\ tmLock = "free"
            /\ nodes' = UpdateNodeStatusMap(nodeID, StatusDown)
            /\ hnf' = [active |-> TRUE, node |-> nodeID, blocked |-> FALSE,
                       todo |-> {TRef(id) : id \in {i \in DOMAIN tasks : tasks[i].nodeID = nodeID}}]
            /\ ret' = NoRet
    /\ UNCHANGED <<now, healthData, closed, cmLock, nmLock, started, scalers, panicked,
                   tasks, tmLock, queue, deferred, wk, completions, sweep>>

\* HandleNodeFailure with a guard: a task already stopped by a restart is skipped
HandleNodeFailureTaskOnce(r) ==
    /\ hnf.active /\ ~hnf.blocked
    /\ r \in hnf.todo
    /\ IF Deref(r).status = TaskRunning /\ Deref(r).desired # TaskComplete
       THEN /\ tmLock = "free"
            /\ IF r.id \in DOMAIN tasks
               THEN RestartTaskDo(r.id, hnf.todo \ {r}, TRUE)
               ELSE /\ hnf' = [hnf EXCEPT !.todo = hnf.todo \ {r}]
                    /\ UNCHANGED <<tasks, tmLock, queue, deferred, wk, sweep>>
       ELSE /\ hnf' = [hnf EXCEPT !.todo = hnf.todo \ {r}]
            /\ UNCHANGED <<tasks, tmLock, queue, deferred, wk, sweep>>
    /\ ret' = NoRet
    /\ UNCHANGED <<now, healthData, closed, cmLock, nodes, nmLock, started, scalers, panicked, completions>>

\* HandleNodeFailure, one task of the loop: RestartTask when its status is Running
HandleNodeFailureTask(r) ==
    /\ hnf.active /\ ~hnf.blocked
    /\ r \in hnf.todo
    /\ IF Deref(r).status = TaskRunning
       THEN /\ tmLock = "free"
            /\ IF r.id \in DOMAIN tasks
               THEN RestartTaskDo(r.id, hnf.todo \ {r}, TRUE)
               ELSE /\ hnf' = [hnf EXCEPT !.todo = hnf.todo \ {r}]
                    /\ UNCHANGED <<tasks, tmLock, queue, deferred, wk, sweep>>
       ELSE /\ hnf' = [hnf EXCEPT !.todo = hnf.todo \ {r}]
            /\ UNCHANGED <<tasks, tmLock, queue, deferred, wk, sweep>>
    /\ ret' = NoRet
    /\ UNCHANGED <<now, healthData, closed, cmLock, nodes, nmLock, started, scalers, panicked, completions>>

\* HandleNodeFailure returns nil after the loop
HandleNodeFailureReturn ==
    /\ hnf.active /\ ~hnf.blocked
    /\ hnf.todo = {}
    /\ hnf' = HIdle
    /\ ret' = Ret("HandleNodeFailure", hnf.node, "ok")
    /\ UNCHANGED <<now, healthData, closed, cmLock, nodes, nmLock, started, scalers, panicked,
                   tasks, tmLock, queue, deferred, wk, completions, sweep>>

\* ----------------------------------------------- the node registry alone
UserNodeIDs == {"n1"}

BaseNode == Node("n1", RoleWorker, StatusReady, 2000, 4 * Gi, 50 * Gi)

ValidNodeInputs ==
    {[BaseNode EXCEPT !.id = id, !.role = role] :
        id \in UserNodeIDs \cup {"node-0"}, role \in {RoleManager, RoleWorker}}

InvalidNodeInputs ==
    { [BaseNode EXCEPT !.id = ""], [BaseNode EXCEPT !.name = ""],
      [BaseNode EXCEPT !.address = ""], [BaseNode EXCEPT !.port = 0],
      [BaseNode EXCEPT !.port = 65536], [BaseNode EXCEPT !.role = "boss"],
      [BaseNode EXCEPT !.cpu = 0], [BaseNode EXCEPT !.cpu = -1],
      [BaseNode EXCEPT !.memory = 0], [BaseNode EXCEPT !.disk = 0] }

NodeInputs == ValidNodeInputs \cup InvalidNodeInputs

ResourceInputs ==
    { [cpu |-> 4000, memory |-> 8 * Gi, disk |-> 100 * Gi],
      [cpu |-> 1000, memory |-> 0, disk |-> 0] }

AllNodeIDs == UserNodeIDs \cup {"node-" \o ToString(t) : t \in 0..MaxTime}

Init ==
    /\ now = 0
    /\ nodes = [id \in {} |-> BaseNode]
    /\ nmLock = "free"
    /\ started = FALSE
    /\ cmLock = "free"
    /\ scalers = [p \in 1..MaxScalers |-> Idle]
    /\ ret = NoRet
    /\ healthData = [id \in {} |-> [checks |-> <<>>, status |-> "", update |-> ""]]
    /\ closed = FALSE
    /\ tasks = [id \in {} |-> Task("", 0, 0, 0)]
    /\ tmLock = "free"
    /\ queue = <<>>
    /\ deferred = <<>>
    /\ wk = [w \in 1..NumWorkers |-> WIdle]
    /\ completions = [id \in {} |-> 0]
    /\ sweep = {}
    /\ hnf = HIdle
    /\ panicked = FALSE
    /\ ops = 0

\* a step of the node registry leaves the task side alone
NodeOnly ==
    /\ ~panicked
    /\ UNCHANGED <<tasks, tmLock, queue, deferred, wk, completions, sweep, hnf, panicked, ops>>

NextNodes ==
    \/ Tick /\ NodeOnly
    \/ Initialize /\ NodeOnly
    \/ \E node \in NodeInputs : RegisterNode(node) /\ NodeOnly
    \/ \E id \in AllNodeIDs : UnregisterNode(id) /\ NodeOnly
    \/ \E id \in AllNodeIDs, res \in ResourceInputs : UpdateNodeResources(id, res) /\ NodeOnly
    \/ \E p \in 1..MaxScalers, target \in -1..MaxTarget : ScaleWorkersStart(p, target) /\ NodeOnly
    \/ \E p \in 1..MaxScalers : ScaleWorkersUp(p) /\ NodeOnly
    \/ \E p \in 1..MaxScalers : ScaleWorkersDown(p) /\ NodeOnly

SpecNodes == Init /\ [][NextNodes]_vars

\* C9: in every reachable state of the node registry every registered node has
\* cpu > 0, memory > 0 and disk > 0, whatever sequence of RegisterNode,
\* UpdateNodeResources, UnregisterNode and ScaleWorkers led there.
C9_ResourcesPositive ==
    \A id \in DOMAIN nodes :
        nodes[id].cpu > 0 /\ nodes[id].memory > 0 /\ nodes[id].disk > 0

\* C10: once Initialize has registered the local manager node, every reachable
\* state of the node registry holds at least one node of role manager.
C10_ManagerExists ==
    started => \E id \in DOMAIN nodes : nodes[id].role = RoleManager

\* C11: UnregisterNode(id) always returns: a not-found error for an unknown id, a
\* constraint error and an unchanged registry when id is the only manager-role
\* node, and success with id removed for every other registered node.
C11_UnregisterReturns ==
    [][ \A id \in AllNodeIDs : UnregisterNode(id) =>
          /\ ret'.op = "UnregisterNode"
          /\ IF id \notin DOMAIN nodes
             THEN ret'.err = "not found" /\ nodes' = nodes
             ELSE IF /\ nodes[id].role = RoleManager
                     /\ \A other \in DOMAIN nodes \ {id} : nodes[other].role # RoleManager
             THEN ret'.err = "constraint" /\ nodes' = nodes
             ELSE /\ ret'.err = "ok"
                  /\ DOMAIN nodes' = DOMAIN nodes \ {id}
                  /\ \A other \in DOMAIN nodes' : nodes'[other] = nodes[other] ]_vars

\* registration alone: nodes are registered, registered again and unregistered
\* while the clock moves
NextRegister ==
    \/ Tick /\ NodeOnly
    \/ Initialize /\ NodeOnly
    \/ \E node \in NodeInputs : RegisterNode(node) /\ NodeOnly
    \/ \E id \in AllNodeIDs : UnregisterNode(id) /\ NodeOnly

SpecRegister == Init /\ [][NextRegister]_vars

\* C26: RegisterNode is an upsert keyed by identity: after a RegisterNode(n) that
\* succeeds the registry holds exactly one entry for n.ID and leaves every other
\* entry as it was, GetNode(n.ID) returns a node equal to n on every field other
\* than the creation time, and when the identity was registered before the entry
\* keeps the creation time it had.
C26_RegisterUpsert ==
    [][ \A n \in NodeInputs : (RegisterNode(n) /\ ret'.err = "ok") =>
          /\ Cardinality({k \in DOMAIN nodes' : nodes'[k].id = n.id}) = 1
          /\ DOMAIN nodes' = DOMAIN nodes \cup {n.id}
          /\ \A other \in DOMAIN nodes \ {n.id} : nodes'[other] = nodes[other]
          /\ (GetNode(n.id)').err = "ok"
          /\ [(GetNode(n.id)').node EXCEPT !.createdAt = 0] = [n EXCEPT !.createdAt = 0]
          /\ (GetNode(n.id)').node.createdAt =
                 IF n.id \in DOMAIN nodes THEN nodes[n.id].createdAt ELSE now ]_vars

\* C26: n1, registered as a worker before the clock moved, has just been
\* registered again as a manager and still carries its first creation time
C26_Witness ==
    /\ ret = Ret("RegisterNode", "n1", "ok")
    /\ now = 1
    /\ GetNode("n1").err = "ok"
    /\ GetNode("n1").node.role = RoleManager
    /\ GetNode("n1").node.createdAt = 0


\* ------------------------------------------------- the cluster with tasks
\* scenario nodes and tasks: W is the worker of scenario A, the manager M is the
\* local node Initialize registers
W == Node("n1", RoleWorker, StatusReady, 2000, 4 * Gi, 50 * Gi)

TaskInputs == {Task("t1", 1000, 1 * Gi, 0), Task("t2", 1000, 1 * Gi, 0)}

InvalidTaskInputs ==
    { Task("", 1000, 1 * Gi, 0), [Task("t1", 1000, 1 * Gi, 0) EXCEPT !.name = ""],
      [Task("t1", 1000, 1 * Gi, 0) EXCEPT !.image = ""],
      Task("t1", 0, 1 * Gi, 0), Task("t1", 1000, 0, 0),
      Task("t1", -1, 1 * Gi, 0), Task("t1", 1000, -1, 0) }

AllTaskIDs == {"t1", "t2"} \cup {"task-" \o ToString(t) : t \in 0..MaxTime}

\* a call made by a caller of the cluster, or a failing probe: within the budget
Budget == ~panicked /\ ops < MaxOps /\ ops' = ops + 1
\* a step of a goroutine of the cluster, or of the clock
Free == ~panicked /\ UNCHANGED ops

Next ==
    \/ Budget /\ Initialize /\ UNCHANGED taskVars
    \/ \E id \in AllNodeIDs : Budget /\ checkNodeHealth(id, "failed") /\ UNCHANGED taskVars
    \/ \E task \in TaskInputs \cup InvalidTaskInputs : Budget /\ CreateTask(task)
    \/ \E id \in AllTaskIDs : Budget /\ RemoveTask(id)
    \/ \E id \in AllTaskIDs : Budget /\ RestartTask(id)
    \/ \E id \in AllNodeIDs : Budget /\ HandleNodeFailureStart(id)
    \/ Free /\ Tick /\ UNCHANGED taskVars
    \/ \E id \in AllNodeIDs : Free /\ checkNodeHealth(id, "passed") /\ UNCHANGED taskVars
    \/ \E i \in 1..MaxDeferred : Free /\ DeferredEnqueue(i)
    \/ Free /\ RestartTaskUnblock
    \/ \E w \in 1..NumWorkers : Free /\ WorkerDequeue(w)
    \/ \E w \in 1..NumWorkers : Free /\ WorkerPending(w)
    \/ \E w \in 1..NumWorkers : Free /\ WorkerSelect(w)
    \/ \E w \in 1..NumWorkers : Free /\ WorkerFail(w)
    \/ \E w \in 1..NumWorkers : Free /\ WorkerAssign(w)
    \/ \E w \in 1..NumWorkers : Free /\ WorkerAssigned(w)
    \/ \E w \in 1..NumWorkers : Free /\ WorkerRunning(w)
    \/ \E id \in AllTaskIDs : Free /\ TaskCompletion(id)
    \/ Free /\ scheduleTasksStart
    \/ \E r \in sweep : Free /\ scheduleTasksVisit(r)
    \/ \E r \in hnf.todo : Free /\ HandleNodeFailureTask(r)
    \/ Free /\ HandleNodeFailureReturn

Spec == Init /\ [][Next]_vars

\* C1: in every reachable state a task of the registry in status New or Pending has
\* an empty NodeID, and a task in status Assigned, Running or Complete has a
\* NodeID: NodeID is non-empty if and only if the status is Assigned or later.
\* A task a worker holds between the two statements of processTask that write
\* NodeID and mark it Assigned is not counted.
C1_NodeIDIffAssigned ==
    \A id \in DOMAIN tasks :
        (\A w \in 1..NumWorkers : ~(wk[w].pc = "assigned" /\ wk[w].ref.id = id)) =>
            /\ tasks[id].status \in {TaskNew, TaskPending} => tasks[id].nodeID = ""
            /\ tasks[id].status \in {TaskAssigned, TaskRunning, TaskComplete} =>
                   tasks[id].nodeID # ""

\* C5: every RestartTask of a task of the registry, called directly or by
\* HandleNodeFailure for a Running task, gives the clone an identity no task of
\* the registry has, so that the call adds one entry to the registry.
C5_RestartAddsEntry ==
    [][ /\ \A id \in DOMAIN tasks : RestartTask(id) =>
              Cardinality(DOMAIN tasks') = Cardinality(DOMAIN tasks) + 1
        /\ \A r \in hnf.todo :
              (HandleNodeFailureTask(r) /\ r.id \in DOMAIN tasks
                    /\ Deref(r).status = TaskRunning) =>
              Cardinality(DOMAIN tasks') = Cardinality(DOMAIN tasks) + 1 ]_vars

\* C6: HandleNodeFailure(n) for a registered node n sets the status of n to Down
\* and, for a task of n that is Running, stops it through RestartTask; every
\* other task of the registry is left as it was, and a task of n that is not
\* Running is not restarted; for an unregistered n the call returns an error and
\* changes neither registry.
C6_HandleNodeFailureFrame ==
    [][ /\ \A n \in AllNodeIDs : HandleNodeFailureStart(n) =>
              /\ tasks' = tasks
              /\ IF n \in DOMAIN nodes
                 THEN nodes' = [nodes EXCEPT ![n].status = StatusDown]
                 ELSE nodes' = nodes /\ ret'.err = "not found"
        /\ \A r \in hnf.todo : HandleNodeFailureTask(r) =>
              /\ nodes' = nodes
              /\ \A id \in DOMAIN tasks \ {r.id} :
                     id \in DOMAIN tasks' /\ tasks'[id] = tasks[id]
              /\ r.id \in DOMAIN tasks =>
                     IF tasks[r.id].status = TaskRunning /\ tasks[r.id].nodeID = hnf.node
                     THEN tasks'[r.id] = [tasks[r.id] EXCEPT !.desired = TaskComplete]
                     ELSE tasks' = tasks ]_vars

\* C7: a health check that aggregates a node of status Ready or Active as Down
\* sets the status of the node to Down and invokes HandleNodeFailure for it.
C7_HealthFailureHandled ==
    [][ \A id \in DOMAIN nodes :
          (checkNodeHealth(id, "failed") /\ nodes[id].status \in {StatusReady, StatusActive}) =>
              /\ nodes'[id].status = StatusDown
              /\ hnf'.active /\ hnf'.node = id ]_vars

\* C8: RemoveTask(id) on a task whose status is Running returns an error and leaves
\* the task registry unchanged; on a task whose status is Complete it succeeds and
\* removes the task, and only that task, from the registry.
C8_RemoveGuard ==
    [][ \A id \in DOMAIN tasks : RemoveTask(id) =>
          /\ tasks[id].status = TaskRunning =>
                 ret'.err = "constraint" /\ tasks' = tasks
          /\ tasks[id].status = TaskComplete =>
                 /\ ret'.err = "ok"
                 /\ id \notin DOMAIN tasks'
                 /\ DOMAIN tasks' = DOMAIN tasks \ {id}
                 /\ \A other \in DOMAIN tasks' : tasks'[other] = tasks[other] ]_vars

\* C8: RemoveTask has just refused to remove the Running task t1
C8_Witness ==
    /\ ret = Ret("RemoveTask", "t1", "constraint")
    /\ "t1" \in DOMAIN tasks
    /\ tasks["t1"].status = TaskRunning

\* C12: RestartTask(id) on a task of the registry sets its desired state to
\* Complete and leaves its status, adds exactly one task, which carries the same
\* configuration with status New, desired state Running and no started or
\* completed timestamp, and sends the new task to the dispatch queue; on an
\* unknown id it returns an error and changes nothing.
C12_RestartClones ==
    [][ \A id \in AllTaskIDs : RestartTask(id) =>
          IF id \notin DOMAIN tasks
          THEN ret'.err = "not found" /\ tasks' = tasks /\ queue' = queue
          ELSE \E new \in DOMAIN tasks' \ DOMAIN tasks :
                 /\ DOMAIN tasks' = DOMAIN tasks \cup {new}
                 /\ tasks'[id] = [tasks[id] EXCEPT !.desired = TaskComplete]
                 /\ \A other \in DOMAIN tasks \ {id} : tasks'[other] = tasks[other]
                 /\ tasks'[new] = [tasks[id] EXCEPT !.id = new, !.status = TaskNew,
                                                    !.desired = TaskRunning,
                                                    !.startedAt = FALSE, !.completedAt = FALSE]
                 /\ \/ queue' = Append(queue, TRef(new))
                    \/ Len(queue) = QueueCap /\ tmLock' = new ]_vars

\* C13: CreateTask rejects a task with an empty identity, name or image, or with
\* cpu or memory not positive, with a validation error, and leaves the registry
\* and the dispatch queue as they were; a task it accepts is stored with status
\* New and desired state Running and is sent to the dispatch queue, by the call
\* itself when the queue has room and by the goroutine it starts otherwise.
C13_CreateValidates ==
    [][ \A task \in TaskInputs \cup InvalidTaskInputs : CreateTask(task) =>
          IF \/ task.id = "" \/ task.name = "" \/ task.image = ""
             \/ task.cpu <= 0 \/ task.memory <= 0
          THEN /\ ret'.err = "validation"
               /\ tasks' = tasks /\ queue' = queue /\ deferred' = deferred
          ELSE /\ ret'.err = "ok"
               /\ task.id \in DOMAIN tasks'
               /\ tasks'[task.id] = [task EXCEPT !.status = TaskNew, !.desired = TaskRunning]
               /\ IF Len(queue) < QueueCap
                  THEN /\ Len(queue') = Len(queue) + 1
                       /\ queue'[Len(queue')] = TRef(task.id)
                       /\ Len(deferred') = Len(deferred)
                  ELSE /\ Len(queue') = Len(queue)
                       /\ Len(deferred') = Len(deferred) + 1
                       /\ deferred'[Len(deferred')] = TRef(task.id) ]_vars

\* C13: CreateTask has just rejected a task named t1 while the registry holds the
\* t1 an earlier call accepted and the queue still holds it
C13_Witness ==
    /\ ret = Ret("CreateTask", "t1", "validation")
    /\ "t1" \in DOMAIN tasks
    /\ tasks["t1"].status = TaskNew /\ tasks["t1"].desired = TaskRunning
    /\ queue = <<TRef("t1")>>

\* ------------------------------------------------------ selection alone
\* SelectNodeForTask over registries of up to two nodes of any status and
\* capacity, applied by the pool worker to the request of a created task.  Every
\* score of these nodes and requests is a dyadic fraction, which float64 holds
\* exactly.
SelectStatuses == {StatusReady, StatusActive, StatusDraining, StatusDown}

SelectNodes(id, role) ==
    {Node(id, role, status, cpu, memory, disk) :
        status \in SelectStatuses, cpu \in {2000, 4000},
        memory \in {4 * Gi, 8 * Gi}, disk \in {50 * Gi, 100 * Gi}}

SelectRegistries ==
    {[id \in {} |-> BaseNode]}
    \cup {[id \in {"node-0"} |-> m] : m \in SelectNodes("node-0", RoleManager)}
    \cup {[id \in {"n1"} |-> w] : w \in SelectNodes("n1", RoleWorker)}
    \cup {[id \in {"node-0", "n1"} |-> IF id = "n1" THEN w ELSE m] :
             m \in SelectNodes("node-0", RoleManager), w \in SelectNodes("n1", RoleWorker)}

SelectTaskInputs ==
    {Task("t1", 1000, 1 * Gi, 0), Task("t1", 3000, 1 * Gi, 0), Task("t1", 1000, 6 * Gi, 0),
     Task("t1", 1000, 1 * Gi, 80 * Gi), Task("t1", 8000, 1 * Gi, 0)}

InitSelect ==
    /\ now = 0
    /\ nodes \in SelectRegistries
    /\ nmLock = "free"
    /\ started = FALSE
    /\ cmLock = "free"
    /\ scalers = [p \in 1..MaxScalers |-> Idle]
    /\ ret = NoRet
    /\ healthData = [id \in {} |-> [checks |-> <<>>, status |-> "", update |-> ""]]
    /\ closed = FALSE
    /\ tasks = [id \in {} |-> Task("", 0, 0, 0)]
    /\ tmLock = "free"
    /\ queue = <<>>
    /\ deferred = <<>>
    /\ wk = [w \in 1..NumWorkers |-> WIdle]
    /\ completions = [id \in {} |-> 0]
    /\ sweep = {}
    /\ hnf = HIdle
    /\ panicked = FALSE
    /\ ops = 0

SelectBudget == ~panicked /\ ops < MaxSelectCalls /\ ops' = ops + 1

NextSelect ==
    \/ \E task \in SelectTaskInputs : SelectBudget /\ CreateTask(task)
    \/ \E w \in 1..NumWorkers : Free /\ WorkerDequeue(w)
    \/ \E w \in 1..NumWorkers : Free /\ WorkerPending(w)
    \/ \E w \in 1..NumWorkers : Free /\ WorkerSelect(w)
    \/ \E w \in 1..NumWorkers : Free /\ WorkerFail(w)
    \/ \E w \in 1..NumWorkers : Free /\ WorkerAssign(w)
    \/ \E w \in 1..NumWorkers : Free /\ WorkerAssigned(w)
    \/ \E w \in 1..NumWorkers : Free /\ WorkerRunning(w)
    \/ \E id \in {"t1"} : Free /\ TaskCompletion(id)

SpecSelect == InitSelect /\ [][NextSelect]_vars

\* C2: whenever SelectNodeForTask(task) returns a node, that node has status ready
\* or active and cpu, memory and disk each at least the request of the task; it
\* returns the error exactly when no registered node satisfies both conditions.
C2_SelectQualifies ==
    [][ \A w \in 1..NumWorkers : WorkerSelect(w) =>
          LET task == Deref(wk[w].ref)
              fits(id) == /\ nodes[id].status \in {StatusReady, StatusActive}
                          /\ nodes[id].cpu >= task.cpu
                          /\ nodes[id].memory >= task.memory
                          /\ nodes[id].disk >= task.disk
          IN  /\ wk'[w].pc = "assign" => wk'[w].node \in DOMAIN nodes /\ fits(wk'[w].node)
              /\ wk'[w].pc = "fail" <=> ~ \E id \in DOMAIN nodes : fits(id) ]_vars

\* C2: a worker holds the node selected for a request of 80 Gi of disk, and the
\* registry has another ready or active node, whose disk is too small
C2_Witness ==
    \E w \in 1..NumWorkers :
        /\ wk[w].pc = "assign"
        /\ Deref(wk[w].ref).disk = 80 * Gi
        /\ \E id \in DOMAIN nodes :
              /\ id # wk[w].node
              /\ nodes[id].status \in {StatusReady, StatusActive}
              /\ nodes[id].disk < 80 * Gi

\* C3: the node SelectNodeForTask returns has, among the ready or active nodes with
\* capacity for the request, a maximal slack score, the mean of
\* (node.cpu - task.cpu) / node.cpu and (node.memory - task.memory) / node.memory;
\* in scenario A (M cpu 4000 memory 8 Gi, W cpu 2000 memory 4 Gi, and T cpu 1000
\* memory 1 Gi the one task created) T has NodeID M once it is Assigned.
C3_SelectMaxSlack ==
    /\ [][ \A w \in 1..NumWorkers : (WorkerSelect(w) /\ wk'[w].pc = "assign") =>
              LET task == Deref(wk[w].ref)
                  fits(id) == /\ nodes[id].status \in {StatusReady, StatusActive}
                              /\ nodes[id].cpu >= task.cpu
                              /\ nodes[id].memory >= task.memory
                              /\ nodes[id].disk >= task.disk
                  \* twice the slack score of n, times n.cpu * n.memory
                  num(n) == (n.cpu - task.cpu) * n.memory + (n.memory - task.memory) * n.cpu
                  den(n) == n.cpu * n.memory
                  best == nodes[wk'[w].node]
              IN  \A id \in DOMAIN nodes :
                      fits(id) => num(best) * den(nodes[id]) >= num(nodes[id]) * den(best) ]_vars
    /\ [](( /\ ops = 1
            /\ nodes = [id \in {"node-0", "n1"} |->
                          IF id = "n1" THEN Node("n1", RoleWorker, StatusReady, 2000, 4 * Gi, 50 * Gi)
                          ELSE Node("node-0", RoleManager, StatusActive, 4000, 8 * Gi, 100 * Gi)]
            /\ "t1" \in DOMAIN tasks
            /\ tasks["t1"].cpu = 1000 /\ tasks["t1"].memory = 1 * Gi
            /\ tasks["t1"].status \in {TaskAssigned, TaskRunning, TaskComplete} )
           => tasks["t1"].nodeID = "node-0")

\* C3: scenario A, with T Assigned to M
C3_Witness ==
    /\ nodes = [id \in {"node-0", "n1"} |->
                  IF id = "n1" THEN Node("n1", RoleWorker, StatusReady, 2000, 4 * Gi, 50 * Gi)
                  ELSE Node("node-0", RoleManager, StatusActive, 4000, 8 * Gi, 100 * Gi)]
    /\ "t1" \in DOMAIN tasks
    /\ tasks["t1"].cpu = 1000 /\ tasks["t1"].memory = 1 * Gi
    /\ tasks["t1"].status = TaskAssigned
    /\ tasks["t1"].nodeID = "node-0"

\* ------------------------------------------------- impossible placement
\* scenario B: the registry holds at most the local manager (cpu 4000) and the
\* worker W (cpu 2000); Big asks for cpu 8000.  The pool workers, the deferred
\* enqueue, the completion timers and the Scheduler sweep are goroutines the Go
\* scheduler keeps running: each is weakly fair.
Big == Task("t3", 8000, 1 * Gi, 0)

ImpossibleTaskInputs == {Task("t1", 1000, 1 * Gi, 0), Big}

WorkerStep(w) ==
    \/ WorkerDequeue(w) \/ WorkerPending(w) \/ WorkerSelect(w) \/ WorkerFail(w)
    \/ WorkerAssign(w) \/ WorkerAssigned(w) \/ WorkerRunning(w)

NextB ==
    \/ Budget /\ Initialize /\ UNCHANGED taskVars
    \/ Budget /\ RegisterNode(W) /\ UNCHANGED taskVars
    \/ \E task \in ImpossibleTaskInputs : Budget /\ CreateTask(task)
    \/ \E i \in 1..MaxDeferred : Free /\ DeferredEnqueue(i)
    \/ \E w \in 1..NumWorkers : Free /\ WorkerDequeue(w)
    \/ \E w \in 1..NumWorkers : Free /\ WorkerPending(w)
    \/ \E w \in 1..NumWorkers : Free /\ WorkerSelect(w)
    \/ \E w \in 1..NumWorkers : Free /\ WorkerFail(w)
    \/ \E w \in 1..NumWorkers : Free /\ WorkerAssign(w)
    \/ \E w \in 1..NumWorkers : Free /\ WorkerAssigned(w)
    \/ \E w \in 1..NumWorkers : Free /\ WorkerRunning(w)
    \/ \E id \in {"t1", "t3"} : Free /\ TaskCompletion(id)
    \/ Free /\ scheduleTasksStart
    \/ \E r \in sweep : Free /\ scheduleTasksVisit(r)

FairB ==
    /\ \A w \in 1..NumWorkers : WF_vars(Free /\ WorkerStep(w))
    /\ \A i \in 1..MaxDeferred : WF_vars(Free /\ DeferredEnqueue(i))
    /\ \A id \in {"t1", "t3"} : WF_vars(Free /\ TaskCompletion(id))
    /\ WF_vars(\E r \in sweep : Free /\ scheduleTasksVisit(r))

SpecB == Init /\ [][NextB]_vars /\ FairB

\* C4: when no registered node has capacity for a task, CreateTask still returns
\* success, and the task eventually has status Failed and an empty NodeID, however
\* the pool worker and the Scheduler sweep interleave.
C4_ImpossibleFails ==
    /\ [][CreateTask(Big) => ret'.err = "ok" /\ "t3" \in DOMAIN tasks']_vars
    /\ ("t3" \in DOMAIN tasks) ~>
          ("t3" \in DOMAIN tasks /\ tasks["t3"].status = TaskFailed /\ tasks["t3"].nodeID = "")

\* C4: Big has Failed with an empty NodeID in a registry that holds both nodes
C4_Witness ==
    /\ DOMAIN nodes = {"node-0", "n1"}
    /\ "t3" \in DOMAIN tasks
    /\ tasks["t3"].status = TaskFailed
    /\ tasks["t3"].nodeID = ""

\* C27: when the Scheduler sweep and a pool worker both place the same Pending
\* task, one placement wins: a step of either that finds the NodeID of a task set
\* to a node leaves it set to that node.
C27_OnePlacementWins ==
    [][ ( \/ \E w \in 1..NumWorkers : WorkerAssign(w)
          \/ \E r \in sweep : scheduleTasksVisit(r) ) =>
        \A id \in DOMAIN tasks : tasks[id].nodeID # "" =>
            id \in DOMAIN tasks' /\ tasks'[id].nodeID = tasks[id].nodeID ]_vars

\* C39: no step of the dispatch path (a worker in processTask, with its
\* SelectNodeForTask, and the sweep of the Scheduler) changes the registry of nodes
\* or the cpu, memory and disk of a node, and the node a worker selects is one
\* SelectNodeForTask yields for the request of the task on the registry as it is,
\* whatever tasks are assigned already.
C39_PlacementKeepsCapacity ==
    [][ /\ ( \/ \E w \in 1..NumWorkers : WorkerStep(w)
             \/ \E r \in sweep : scheduleTasksVisit(r) ) =>
             /\ DOMAIN nodes' = DOMAIN nodes
             /\ \A id \in DOMAIN nodes :
                   /\ nodes'[id].cpu = nodes[id].cpu
                   /\ nodes'[id].memory = nodes[id].memory
                   /\ nodes'[id].disk = nodes[id].disk
        /\ \A w \in 1..NumWorkers : WorkerSelect(w) =>
             LET sel == SelectNodeForTask(Request(Deref(wk[w].ref)))
             IN  IF sel = {} THEN wk'[w].pc = "fail"
                 ELSE wk'[w].pc = "assign" /\ wk'[w].node \in sel ]_vars

\* C39: t1 and t2 are both placed on node-0 and past Assigned, and node-0 still
\* has the capacity it was registered with
C39_Witness ==
    /\ "node-0" \in DOMAIN nodes
    /\ nodes["node-0"].cpu = LocalNode.cpu /\ nodes["node-0"].memory = LocalNode.memory
    /\ {"t1", "t2"} \subseteq DOMAIN tasks
    /\ \A id \in {"t1", "t2"} :
          tasks[id].nodeID = "node-0" /\ tasks[id].status \in {TaskRunning, TaskComplete}

\* C34: a Pending task for which no node qualified when a worker dequeued it is
\* placed by a later sweep of the Scheduler once a qualifying node exists: the
\* sweep records a node that qualifies as its NodeID and the task leaves Pending
\* for Assigned.
C34_SweepPlaces ==
    [][ \A r \in sweep :
          ( /\ scheduleTasksVisit(r)
            /\ r.live
            /\ tasks[r.id].status = TaskPending
            /\ \E w \in 1..NumWorkers : wk[w].pc = "fail" /\ wk[w].ref = r
            /\ Candidates(tasks[r.id]) # {} ) =>
          /\ tasks'[r.id].nodeID \in Candidates(tasks[r.id])
          /\ tasks'[r.id].status = TaskAssigned ]_vars

\* ------------------------------------------------------ the dispatch queue
\* CreateTask and RestartTask fill the dispatch queue while the pool drains it.
\* The pool workers, the deferred enqueue of CreateTask, the blocked send of
\* RestartTask and the completion timers are goroutines the Go scheduler keeps
\* running: each is weakly fair.
NextQueue ==
    \/ Budget /\ Initialize /\ UNCHANGED taskVars
    \/ \E task \in TaskInputs \cup InvalidTaskInputs : Budget /\ CreateTask(task)
    \/ \E id \in AllTaskIDs : Budget /\ RestartTask(id)
    \/ \E i \in 1..MaxDeferred : Free /\ DeferredEnqueue(i)
    \/ Free /\ RestartTaskUnblock
    \/ \E w \in 1..NumWorkers : Free /\ WorkerDequeue(w)
    \/ \E w \in 1..NumWorkers : Free /\ WorkerPending(w)
    \/ \E w \in 1..NumWorkers : Free /\ WorkerSelect(w)
    \/ \E w \in 1..NumWorkers : Free /\ WorkerFail(w)
    \/ \E w \in 1..NumWorkers : Free /\ WorkerAssign(w)
    \/ \E w \in 1..NumWorkers : Free /\ WorkerAssigned(w)
    \/ \E w \in 1..NumWorkers : Free /\ WorkerRunning(w)
    \/ \E id \in AllTaskIDs : Free /\ TaskCompletion(id)

FairQueue ==
    /\ \A w \in 1..NumWorkers : WF_vars(Free /\ WorkerStep(w))
    /\ \A i \in 1..MaxDeferred : WF_vars(Free /\ DeferredEnqueue(i))
    /\ WF_vars(Free /\ RestartTaskUnblock)
    /\ \A id \in AllTaskIDs : WF_vars(Free /\ TaskCompletion(id))

SpecQueue == Init /\ [][NextQueue]_vars /\ FairQueue

\* C14: the dispatch queue never holds more tasks than its capacity; a CreateTask
\* call made while the queue is at its capacity returns success, stores the task
\* and leaves its enqueue to a goroutine; the caller is not kept waiting: whenever
\* the queue is at its capacity, the registry lock CreateTask takes is free or
\* becomes free; and the deferred enqueue completes.
C14_FullQueueCreate ==
    /\ [](Len(queue) <= QueueCap)
    /\ [][ \A task \in TaskInputs : (CreateTask(task) /\ Len(queue) = QueueCap) =>
              /\ ret'.err = "ok"
              /\ task.id \in DOMAIN tasks'
              /\ Len(queue') = QueueCap
              /\ deferred' # <<>> /\ deferred'[Len(deferred')] = TRef(task.id) ]_vars
    /\ [](Len(queue) = QueueCap => <>(tmLock = "free"))
    /\ (deferred # <<>>) ~> (deferred = <<>>)

\* C15: once a task has status Failed, no step of the pool workers, of the
\* Scheduler sweep or of a completion timer changes its status or removes it.
C15_FailedIsFinal ==
    [][ ( \/ \E w \in 1..NumWorkers : WorkerStep(w)
          \/ \E r \in sweep : scheduleTasksVisit(r)
          \/ \E i \in 1..MaxDeferred : DeferredEnqueue(i)
          \/ \E id \in AllTaskIDs : TaskCompletion(id) ) =>
        \A id \in DOMAIN tasks : tasks[id].status = TaskFailed =>
            id \in DOMAIN tasks' /\ tasks'[id].status = TaskFailed ]_vars

\* C16: no step removes or replaces a task of the registry whose status is
\* Running: after the step the registry still holds its identity, and holds no new
\* task in its place (CreateTask and RestartTask store a task with status New, and
\* nothing else sets that status).
C16_RunningKept ==
    [][ \A id \in DOMAIN tasks : tasks[id].status = TaskRunning =>
            id \in DOMAIN tasks' /\ tasks'[id].status # TaskNew ]_vars

\* C17: SelectNodeForTask is deterministic: for the registry and the task a worker
\* is about to select for, any two invocations, whatever the order in which each
\* iterates over the registry, return the same node.
C17_SelectDeterministic ==
    \A w \in 1..NumWorkers : wk[w].pc = "select" =>
        LET task == Deref(wk[w].ref)
        IN  \A first, second \in Perms(Candidates(task)) :
                selectNodeByResources(first, task) = selectNodeByResources(second, task)

\* the status changes of the automatic dispatch path
DispatchEdges ==
    { <<TaskNew, TaskPending>>, <<TaskPending, TaskAssigned>>, <<TaskPending, TaskFailed>>,
      <<TaskAssigned, TaskRunning>>, <<TaskAssigned, TaskFailed>>,
      <<TaskRunning, TaskComplete>> }

\* C29: every status change a pool worker or a completion timer makes follows one
\* of the edges New -> Pending, Pending -> Assigned, Pending -> Failed,
\* Assigned -> Running, Assigned -> Failed, Running -> Complete, however the
\* worker and the completion timer interleave; a task never moves from Complete
\* back to Running.
C29_DispatchEdges ==
    [][ ( \/ \E w \in 1..NumWorkers : WorkerStep(w)
          \/ \E id \in AllTaskIDs : TaskCompletion(id) ) =>
        \A id \in DOMAIN tasks :
            /\ id \in DOMAIN tasks'
            /\ \/ tasks'[id].status = tasks[id].status
               \/ <<tasks[id].status, tasks'[id].status>> \in DispatchEdges ]_vars

\* C30: with the pool workers and the enqueuing goroutines scheduled fairly, every
\* task that CreateTask accepted or RestartTask created, the ones whose enqueue
\* was deferred included, is eventually dequeued by a worker and leaves status
\* New.
C30_LeavesNew ==
    \A id \in AllTaskIDs :
        (id \in DOMAIN tasks /\ tasks[id].status = TaskNew) ~>
            (id \in DOMAIN tasks /\ tasks[id].status # TaskNew)

\* C31: every task that reaches status Running eventually reaches status Complete,
\* unless it is removed, and no step of a pool worker or of a completion timer
\* takes a Complete task out of that status, whichever of the Running update of
\* the worker and the completion timer comes first.
C31_RunningCompletes ==
    /\ \A id \in AllTaskIDs :
          (id \in DOMAIN tasks /\ tasks[id].status = TaskRunning) ~>
              (id \notin DOMAIN tasks \/ tasks[id].status = TaskComplete)
    /\ [][ ( \/ \E w \in 1..NumWorkers : WorkerStep(w)
             \/ \E id \in AllTaskIDs : TaskCompletion(id) ) =>
           \A id \in DOMAIN tasks : tasks[id].status = TaskComplete =>
               id \in DOMAIN tasks' /\ tasks'[id].status = TaskComplete ]_vars

\* the pool workers are all stopped at an updateTaskStatus, which needs the lock,
\* while the RestartTask that holds it waits for a slot of the full queue
RestartDeadlock ==
    /\ tmLock # "free"
    /\ Len(queue) = QueueCap
    /\ \A w \in 1..NumWorkers : wk[w].pc \in {"pending", "fail", "assigned", "running"}

\* C32: RestartTask always returns, also when the dispatch queue is full: no call
\* waits for a queue slot with the task registry lock held, so the lock a call
\* took is free again, and no reachable state has RestartTask and all the pool
\* workers blocked on each other.
C32_RestartReturns ==
    /\ [][ \A id \in AllTaskIDs : RestartTask(id) =>
              ret'.op = "RestartTask" /\ tmLock' = "free" ]_vars
    /\ [](~RestartDeadlock)
    /\ (tmLock # "free") ~> (tmLock = "free")

\* ---------------------------------------------------------------- failover
\* HandleNodeFailure invoked, any number of times, on a cluster whose tasks the
\* callers only create: every restart is one HandleNodeFailure made.
FailoverBudget == ~panicked /\ ops < MaxFailoverOps /\ ops' = ops + 1

NextFailover ==
    \/ FailoverBudget /\ Initialize /\ UNCHANGED taskVars
    \/ \E task \in TaskInputs : FailoverBudget /\ CreateTask(task)
    \/ \E id \in AllNodeIDs : FailoverBudget /\ HandleNodeFailureStart(id)
    \/ Free /\ Tick /\ UNCHANGED taskVars
    \/ \E i \in 1..MaxDeferred : Free /\ DeferredEnqueue(i)
    \/ Free /\ RestartTaskUnblock
    \/ \E w \in 1..NumWorkers : Free /\ WorkerDequeue(w)
    \/ \E w \in 1..NumWorkers : Free /\ WorkerPending(w)
    \/ \E w \in 1..NumWorkers : Free /\ WorkerSelect(w)
    \/ \E w \in 1..NumWorkers : Free /\ WorkerFail(w)
    \/ \E w \in 1..NumWorkers : Free /\ WorkerAssign(w)
    \/ \E w \in 1..NumWorkers : Free /\ WorkerAssigned(w)
    \/ \E w \in 1..NumWorkers : Free /\ WorkerRunning(w)
    \/ \E id \in AllTaskIDs : Free /\ TaskCompletion(id)
    \/ \E r \in hnf.todo : Free /\ HandleNodeFailureTask(r)
    \/ Free /\ HandleNodeFailureReturn

SpecFailover == Init /\ [][NextFailover]_vars

\* C18: HandleNodeFailure has no idempotency guard: when its loop reaches a task of
\* the node that is still Running and that an earlier restart already stopped
\* (desired state Complete), it calls RestartTask for it again: the task is cloned
\* once more and the clone is sent to the dispatch queue.
C18_DoubleRestart ==
    [][ \A r \in hnf.todo :
          ( /\ HandleNodeFailureTask(r)
            /\ r.live
            /\ tasks[r.id].status = TaskRunning
            /\ tasks[r.id].desired = TaskComplete ) =>
          /\ generateTaskID \in DOMAIN tasks'
          /\ tasks'[generateTaskID].status = TaskNew
          /\ tasks'[generateTaskID].desired = TaskRunning
          /\ \/ Len(queue') = Len(queue) + 1 /\ queue'[Len(queue')] = TRef(generateTaskID)
             \/ Len(queue) = QueueCap /\ tmLock' = generateTaskID ]_vars

\* C18: two invocations of HandleNodeFailure have each restarted the Running task
\* t1: the registry holds t1, stopped and still Running, and two clones of it
C18_Witness ==
    /\ ret = Ret("HandleNodeFailure", "node-0", "ok")
    /\ DOMAIN tasks = {"t1", "task-0", "task-1"}
    /\ tasks["t1"].status = TaskRunning /\ tasks["t1"].desired = TaskComplete
    /\ tasks["task-0"].desired = TaskRunning
    /\ tasks["task-1"].desired = TaskRunning /\ tasks["task-1"].status = TaskNew

\* ------------------------------------------------------------ health checks
\* checkNodeHealth under every combination of results of its four probes
ProbeResults == {"passed", "warning", "failed"}

ProbeInputs == [1..4 -> ProbeResults]

NextHealth ==
    \/ Free /\ Initialize /\ UNCHANGED taskVars
    \/ \E id \in AllNodeIDs, checks \in ProbeInputs :
          Free /\ checkNodeHealthProbes(id, checks) /\ UNCHANGED taskVars

SpecHealth == Init /\ [][NextHealth]_vars

\* C19: for every combination of probe results, the overall health status stored
\* for a node is Down when a probe failed, otherwise Unknown when a probe gave a
\* warning, otherwise Ready.
C19_OverallHealth ==
    \A id \in DOMAIN healthData :
        LET checks == healthData[id].checks
        IN  healthData[id].status =
                IF \E i \in DOMAIN checks : checks[i] = "failed" THEN StatusDown
                ELSE IF \E i \in DOMAIN checks : checks[i] = "warning" THEN StatusUnknown
                ELSE StatusReady

\* C19: a cycle in which one probe gave a warning and no probe failed left the
\* overall status Unknown, on a node an earlier cycle had set Down
C19_Witness ==
    /\ "node-0" \in DOMAIN healthData
    /\ healthData["node-0"].checks = <<"passed", "passed", "warning", "passed">>
    /\ healthData["node-0"].status = StatusUnknown
    /\ nodes["node-0"].status = StatusDown

\* ---------------------------------------------------------------- lifecycle
\* Initialize and Shutdown called in any order, with the node registry and the
\* health checker at work
NextLifecycle ==
    \/ Budget /\ Initialize /\ UNCHANGED taskVars
    \/ Budget /\ Shutdown
    \/ Budget /\ RegisterNode(W) /\ UNCHANGED taskVars
    \/ \E id \in AllNodeIDs : Budget /\ checkNodeHealth(id, "failed") /\ UNCHANGED taskVars
    \/ \E id \in AllNodeIDs : Free /\ checkNodeHealth(id, "passed") /\ UNCHANGED taskVars
    \/ Free /\ Tick /\ UNCHANGED taskVars

SpecLifecycle == Init /\ [][NextLifecycle]_vars

\* C20: Initialize on a started ClusterManager returns an error and Shutdown on a
\* ClusterManager that is not started returns an error, each leaving the started
\* flag as it was; an Initialize that succeeds sets started, and a Shutdown that
\* succeeds clears it.
C20_LifecycleGuard ==
    [][ /\ (Initialize /\ started) =>
              ret' = Ret("Initialize", "", "already initialized") /\ started'
        /\ (Initialize /\ ret'.err = "ok") => ~started /\ started'
        /\ (Shutdown /\ ~started) =>
              ret' = Ret("Shutdown", "", "not initialized") /\ ~started'
        /\ (Shutdown /\ ret'.err = "ok") => started /\ ~started' ]_vars

\* C20: Shutdown has just refused a ClusterManager that an earlier Shutdown stopped
C20_Witness ==
    /\ ret = Ret("Shutdown", "", "not initialized")
    /\ ~started
    /\ closed

\* C37: the lifecycle can be repeated: an Initialize on a ClusterManager that is
\* not started, also after an earlier Shutdown, succeeds and leaves the loops of
\* the Scheduler and of the HealthChecker running, their stop signals open; a
\* Shutdown on a started ClusterManager, also the second one, returns
\* successfully; and no stop signal is ever closed twice.
C37_LifecycleRepeats ==
    /\ [][ (Initialize /\ ~started) =>
             ret' = Ret("Initialize", LocalNode.id, "ok") /\ started' /\ ~closed' ]_vars
    /\ [][ (Shutdown /\ started) =>
             ret' = Ret("Shutdown", "", "ok") /\ ~started' /\ ~panicked' ]_vars
    /\ [](~panicked)

\* --------------------------------------------------------------- membership
\* JoinCluster and LeaveCluster on a cluster that registers managers and runs
\* tasks
ManagerInputs == {[BaseNode EXCEPT !.role = RoleManager]}

NextMembership ==
    \/ Budget /\ Initialize /\ UNCHANGED taskVars
    \/ Budget /\ Shutdown
    \/ \E joinToken \in {"", "SWMTKN-1"} : Budget /\ JoinCluster(joinToken) /\ UNCHANGED taskVars
    \/ \E force \in BOOLEAN : Budget /\ LeaveCluster(force) /\ UNCHANGED taskVars
    \/ \E node \in ManagerInputs : Budget /\ RegisterNode(node) /\ UNCHANGED taskVars
    \/ \E task \in {Task("t1", 1000, 1 * Gi, 0)} : Budget /\ CreateTask(task)
    \/ \E w \in 1..NumWorkers : Free /\ WorkerDequeue(w)
    \/ \E w \in 1..NumWorkers : Free /\ WorkerPending(w)
    \/ \E w \in 1..NumWorkers : Free /\ WorkerSelect(w)
    \/ \E w \in 1..NumWorkers : Free /\ WorkerFail(w)
    \/ \E w \in 1..NumWorkers : Free /\ WorkerAssign(w)
    \/ \E w \in 1..NumWorkers : Free /\ WorkerAssigned(w)
    \/ \E w \in 1..NumWorkers : Free /\ WorkerRunning(w)
    \/ \E id \in {"t1"} : Free /\ TaskCompletion(id)

SpecMembership == Init /\ [][NextMembership]_vars

\* C21: LeaveCluster(force = false) on a started ClusterManager returns an error and
\* leaves it started when the registry holds at most one manager-role node or when
\* a task has status Running; with force = true neither condition keeps the call
\* from leaving: it returns success with the ClusterManager no longer started.
C21_LeaveGuards ==
    [][ /\ (LeaveCluster(FALSE) /\ started
              /\ (Cardinality(GetManagerNodes) <= 1 \/ runningTasks > 0)) =>
              /\ ret'.op = "LeaveCluster" /\ ret'.err \notin {"", "ok"}
              /\ started'
        /\ (LeaveCluster(TRUE) /\ started) =>
              /\ ret' = Ret("LeaveCluster", "", "ok")
              /\ ~started' ]_vars

\* C22: JoinCluster with a non-empty token on a ClusterManager that is not started
\* returns with it started; LeaveCluster, forced or with a second manager and no
\* Running task, returns with it no longer started.
C22_JoinLeaveReturn ==
    [][ /\ \A joinToken \in {"SWMTKN-1"} : (JoinCluster(joinToken) /\ ~started) =>
              ret'.op = "JoinCluster" /\ ret'.err = "ok" /\ started'
        /\ \A force \in BOOLEAN :
              ( /\ LeaveCluster(force) /\ started
                /\ (force \/ (Cardinality(GetManagerNodes) > 1 /\ runningTasks = 0)) ) =>
              ret'.op = "LeaveCluster" /\ ret'.err = "ok" /\ ~started' ]_vars

\* ------------------------------------------------------------------ scaling
\* ScaleWorkers invoked by callers that do not wait for one another, on a
\* registry that holds the local manager and the worker W
InitScale ==
    /\ now = 0
    /\ nodes = [id \in {} |-> BaseNode]
    /\ nmLock = "free"
    /\ started = FALSE
    /\ cmLock = "free"
    /\ scalers = [p \in 1..ScaleCallers |-> Idle]
    /\ ret = NoRet
    /\ healthData = [id \in {} |-> [checks |-> <<>>, status |-> "", update |-> ""]]
    /\ closed = FALSE
    /\ tasks = [id \in {} |-> Task("", 0, 0, 0)]
    /\ tmLock = "free"
    /\ queue = <<>>
    /\ deferred = <<>>
    /\ wk = [w \in 1..NumWorkers |-> WIdle]
    /\ completions = [id \in {} |-> 0]
    /\ sweep = {}
    /\ hnf = HIdle
    /\ panicked = FALSE
    /\ ops = 0

ScaleBudget == ~panicked /\ ops < MaxScaleOps /\ ops' = ops + 1

NextScale ==
    \/ ScaleBudget /\ Initialize /\ UNCHANGED taskVars
    \/ ScaleBudget /\ RegisterNode(W) /\ UNCHANGED taskVars
    \/ \E p \in 1..ScaleCallers, target \in -1..MaxTarget :
          ScaleBudget /\ ScaleWorkersStart(p, target) /\ UNCHANGED taskVars
    \/ \E p \in 1..ScaleCallers : Free /\ ScaleWorkersUp(p) /\ UNCHANGED taskVars
    \/ \E p \in 1..ScaleCallers : Free /\ ScaleWorkersDown(p) /\ UNCHANGED taskVars
    \/ Free /\ Tick /\ UNCHANGED taskVars

SpecScale == InitScale /\ [][NextScale]_vars

\* C23: no step of a ScaleWorkers invocation, whatever its target and however the
\* invocations interleave, takes the last worker-role node out of the registry.
C23_ScaleKeepsWorker ==
    [][ ( /\ GetWorkerNodes # {}
          /\ \E p \in 1..ScaleCallers :
                \/ ScaleWorkersUp(p) \/ ScaleWorkersDown(p)
                \/ \E target \in -1..MaxTarget : ScaleWorkersStart(p, target) ) =>
        Cardinality({id \in DOMAIN nodes' : nodes'[id].role = RoleWorker}) >= 1 ]_vars

\* C24: ScaleWorkers(target) with target >= 1 on a started cluster, while nothing else
\* changes the registry (the registry holds as many workers as the loop counter
\* says): every iteration of the scale-up loop registers one more worker and
\* every iteration of the scale-down loop unregisters one, so that the call
\* returns with target workers in the registry; with target workers already
\* there it returns at once.
C24_ScaleReachesTarget ==
    [][ \A p \in 1..ScaleCallers :
          LET s == scalers[p]
              count == Cardinality(GetWorkerNodes)
              countAfter == Cardinality({id \in DOMAIN nodes' : nodes'[id].role = RoleWorker})
          IN  /\ (ScaleWorkersUp(p) /\ s.target >= 1 /\ count = s.i) =>
                    /\ countAfter = s.i + 1
                    /\ ret'.op = "ScaleWorkers" => countAfter = s.target
              /\ (ScaleWorkersDown(p) /\ s.target >= 1 /\ count = s.i
                     /\ {s.cur[k] : k \in DOMAIN s.cur} = GetWorkerNodes) =>
                    /\ countAfter = s.i - 1
                    /\ ret'.op = "ScaleWorkers" => countAfter = s.target
              /\ \A target \in 1..MaxTarget :
                    (ScaleWorkersStart(p, target) /\ started /\ ret'.op = "ScaleWorkers") =>
                        count = target /\ countAfter = target ]_vars

\* C40: the worker an iteration of the scale-down loop unregisters is the one
\* registered last: no worker that stays in the registry was registered after
\* it.
C40_ScaleDownLIFO ==
    [][ \A p \in 1..ScaleCallers : \A removed \in DOMAIN nodes :
          (ScaleWorkersDown(p) /\ removed \notin DOMAIN nodes') =>
          \A id \in DOMAIN nodes' :
              nodes'[id].role = RoleWorker =>
                  nodes'[id].createdAt <= nodes[removed].createdAt ]_vars

\* ----------------------------------------------------- draining, activating
\* DrainNode and ActivateNode on a registry of managers and workers, with the
\* health checker at work
NextDrain ==
    \/ Free /\ Initialize /\ UNCHANGED taskVars
    \/ \E node \in ValidNodeInputs : Free /\ RegisterNode(node) /\ UNCHANGED taskVars
    \/ \E id \in AllNodeIDs : Free /\ DrainNode(id) /\ UNCHANGED taskVars
    \/ \E id \in AllNodeIDs : Free /\ ActivateNode(id) /\ UNCHANGED taskVars
    \/ \E id \in AllNodeIDs : Free /\ checkNodeHealth(id, "failed") /\ UNCHANGED taskVars
    \/ \E id \in AllNodeIDs : Free /\ checkNodeHealth(id, "passed") /\ UNCHANGED taskVars

SpecDrain == Init /\ [][NextDrain]_vars

\* C25: DrainNode on a manager-role node returns a constraint error and leaves the
\* status of the node as it was; on any other registered node it sets the status
\* to Draining; DrainNode and ActivateNode on an identity the registry does not
\* hold return an error and change nothing.
C25_DrainActivate ==
    [][ \A id \in AllNodeIDs :
          /\ DrainNode(id) =>
                IF id \notin DOMAIN nodes
                THEN ret'.err \notin {"", "ok"} /\ nodes' = nodes
                ELSE IF nodes[id].role = RoleManager
                THEN ret'.err = "constraint" /\ nodes' = nodes
                ELSE /\ ret'.err = "ok"
                     /\ nodes' = [nodes EXCEPT ![id].status = StatusDraining]
          /\ (ActivateNode(id) /\ id \notin DOMAIN nodes) =>
                ret'.err \notin {"", "ok"} /\ nodes' = nodes ]_vars

\* C25: DrainNode has just refused the manager node-0, whose status is still
\* Active, in a registry whose worker n1 an earlier DrainNode set Draining
C25_Witness ==
    /\ ret = Ret("DrainNode", "node-0", "constraint")
    /\ nodes["node-0"].role = RoleManager /\ nodes["node-0"].status = StatusActive
    /\ "n1" \in DOMAIN nodes /\ nodes["n1"].status = StatusDraining

\* C35: a node DrainNode set Draining is never a node SelectNodeForTask can
\* return, for any task, and a health-check cycle, whatever the result of its
\* probes, leaves a Draining node Draining: only ActivateNode or a new
\* registration ends the draining.
C35_DrainedStaysOut ==
    /\ [](\A id \in DOMAIN nodes : nodes[id].status = StatusDraining =>
             \A task \in TaskInputs : id \notin SelectNodeForTask(task))
    /\ [][ \A id \in AllNodeIDs, api \in {"failed", "passed"} :
             ( /\ checkNodeHealth(id, api)
               /\ id \in DOMAIN nodes
               /\ nodes[id].status = StatusDraining ) =>
             nodes'[id].status = StatusDraining ]_vars

\* ------------------------------------------------------------- recovery
\* the health checker, step by step, beside the callers of the node registry. A
\* registration waits for the health check of its node to end: the goroutine
\* keeps the *Node it was started with.
NextRecover ==
    \/ Free /\ Initialize /\ UNCHANGED taskVars
    \/ \E node \in ValidNodeInputs :
          /\ Free
          /\ node.id \in DOMAIN healthData => healthData[node.id].update = ""
          /\ RegisterNode(node)
          /\ UNCHANGED taskVars
    \/ \E id \in AllNodeIDs : Free /\ DrainNode(id) /\ UNCHANGED taskVars
    \/ \E id \in AllNodeIDs : Free /\ ActivateNode(id) /\ UNCHANGED taskVars
    \/ \E id \in AllNodeIDs : Free /\ checkNodeHealthDecide(id, "failed") /\ UNCHANGED taskVars
    \/ \E id \in AllNodeIDs : Free /\ checkNodeHealthDecide(id, "passed") /\ UNCHANGED taskVars
    \/ \E id \in AllNodeIDs : Free /\ checkNodeHealthUpdate(id) /\ UNCHANGED taskVars

SpecRecover == Init /\ [][NextRecover]_vars

\* C36: when the health checker updates a node after a cycle whose overall result
\* for a Down node was Ready, the status of the node becomes Ready; and the health
\* checker sets Ready no node whose status is not Down.
C36_RecoverOnlyDown ==
    [][ \A id \in AllNodeIDs :
          ( checkNodeHealthUpdate(id) /\ id \in DOMAIN nodes ) =>
          /\ (healthData[id].update = StatusReady /\ nodes[id].status = StatusDown) =>
                 nodes'[id].status = StatusReady
          /\ (nodes[id].status \notin {StatusDown, StatusReady}) =>
                 nodes'[id].status # StatusReady ]_vars

\* ---------------------------------------------------------- the worker pool
\* a pool of PoolWorkers workers draining the dispatch queue that CreateTask and
\* RestartTask fill
InitPool ==
    /\ now = 0
    /\ nodes = [id \in {} |-> BaseNode]
    /\ nmLock = "free"
    /\ started = FALSE
    /\ cmLock = "free"
    /\ scalers = [p \in 1..MaxScalers |-> Idle]
    /\ ret = NoRet
    /\ healthData = [id \in {} |-> [checks |-> <<>>, status |-> "", update |-> ""]]
    /\ closed = FALSE
    /\ tasks = [id \in {} |-> Task("", 0, 0, 0)]
    /\ tmLock = "free"
    /\ queue = <<>>
    /\ deferred = <<>>
    /\ wk = [w \in 1..PoolWorkers |-> WIdle]
    /\ completions = [id \in {} |-> 0]
    /\ sweep = {}
    /\ hnf = HIdle
    /\ panicked = FALSE
    /\ ops = 0

NextPool ==
    \/ Budget /\ Initialize /\ UNCHANGED taskVars
    \/ \E task \in TaskInputs : Budget /\ CreateTask(task)
    \/ \E id \in AllTaskIDs : Budget /\ RestartTask(id)
    \/ Free /\ Tick /\ UNCHANGED taskVars
    \/ \E i \in 1..MaxDeferred : Free /\ DeferredEnqueue(i)
    \/ Free /\ RestartTaskUnblock
    \/ \E w \in 1..PoolWorkers : Free /\ WorkerDequeue(w)
    \/ \E w \in 1..PoolWorkers : Free /\ WorkerPending(w)
    \/ \E w \in 1..PoolWorkers : Free /\ WorkerSelect(w)
    \/ \E w \in 1..PoolWorkers : Free /\ WorkerFail(w)
    \/ \E w \in 1..PoolWorkers : Free /\ WorkerAssign(w)
    \/ \E w \in 1..PoolWorkers : Free /\ WorkerAssigned(w)
    \/ \E w \in 1..PoolWorkers : Free /\ WorkerRunning(w)
    \/ \E id \in AllTaskIDs : Free /\ TaskCompletion(id)

SpecPool == InitPool /\ [][NextPool]_vars

\* C28: at any moment at most one pool worker is processing a given task identity,
\* and a task identity that CreateTask accepted or RestartTask created is
\* dequeued once: a worker never takes from the queue an identity that a worker
\* is processing or has processed.
C28_OneWorkerPerTask ==
    /\ [](\A first, second \in 1..PoolWorkers :
            (first # second /\ wk[first].pc # "idle" /\ wk[second].pc # "idle") =>
                wk[first].ref.id # wk[second].ref.id)
    /\ [][ \A w \in 1..PoolWorkers : WorkerDequeue(w) =>
              /\ \A other \in 1..PoolWorkers :
                     wk[other].pc # "idle" => wk[other].ref.id # Head(queue).id
              /\ Head(queue).id \in DOMAIN tasks =>
                     tasks[Head(queue).id].status = TaskNew ]_vars

\* ------------------------------------------------------------------ shutdown
\* Shutdown on a cluster whose pool, Scheduler sweep and health checker are at
\* work.  ClusterManager.Shutdown stops the Scheduler, the APIServer, the
\* DiscoveryService and, through NodeManager.Shutdown, the HealthChecker; nothing
\* calls TaskManager.Shutdown, so the stopChan of the pool workers stays open.
NextStop ==
    \/ Budget /\ Initialize /\ UNCHANGED taskVars
    \/ Budget /\ Shutdown
    \/ \E task \in {Task("t1", 1000, 1 * Gi, 0)} : Budget /\ CreateTask(task)
    \/ \E id \in AllNodeIDs : Budget /\ checkNodeHealth(id, "failed") /\ UNCHANGED taskVars
    \/ \E id \in AllNodeIDs : Free /\ checkNodeHealth(id, "passed") /\ UNCHANGED taskVars
    \/ \E i \in 1..MaxDeferred : Free /\ DeferredEnqueue(i)
    \/ \E w \in 1..NumWorkers : Free /\ WorkerDequeue(w)
    \/ \E w \in 1..NumWorkers : Free /\ WorkerPending(w)
    \/ \E w \in 1..NumWorkers : Free /\ WorkerSelect(w)
    \/ \E w \in 1..NumWorkers : Free /\ WorkerFail(w)
    \/ \E w \in 1..NumWorkers : Free /\ WorkerAssign(w)
    \/ \E w \in 1..NumWorkers : Free /\ WorkerAssigned(w)
    \/ \E w \in 1..NumWorkers : Free /\ WorkerRunning(w)
    \/ \E id \in {"t1"} : Free /\ TaskCompletion(id)
    \/ Free /\ scheduleTasksStart
    \/ \E r \in sweep : Free /\ scheduleTasksVisit(r)

SpecStop == Init /\ [][NextStop]_vars

\* C33: once Shutdown has returned, the background loops have stopped: no step of
\* a pool worker, of a completion timer, of the Scheduler sweep or of the health
\* checker changes the status of a task or of a node.
C33_ShutdownStopsLoops ==
    [][ ( /\ closed /\ ~started
          /\ \/ \E w \in 1..NumWorkers : WorkerStep(w)
             \/ \E id \in AllTaskIDs : TaskCompletion(id)
             \/ scheduleTasksStart
             \/ \E r \in sweep : scheduleTasksVisit(r)
             \/ \E id \in AllNodeIDs : checkNodeHealth(id, "failed")
             \/ \E id \in AllNodeIDs : checkNodeHealth(id, "passed") ) =>
        /\ \A id \in DOMAIN tasks :
               id \in DOMAIN tasks' /\ tasks'[id].status = tasks[id].status
        /\ \A id \in DOMAIN nodes :
               id \in DOMAIN nodes' /\ nodes'[id].status = nodes[id].status ]_vars


\* ------------------------------------------------------- cluster statistics
\* GetClusterInfo and, under it, GetClusterStats, beside the writers of the node
\* registry. sync.RWMutex lets no new reader in once a writer waits in Lock.
LockWriters ==
    {"RegisterNode"} \cup {"UpdateNodeStatus " \o id : id \in AllNodeIDs}

\* mu as GetClusterStats holds it: `counted` of the calls GetManagerNodes,
\* GetWorkerNodes and GetReadyNodes have returned, `writer` waits in mu.Lock
StatsLock(counted, writer) == "stats " \o ToString(counted) \o " " \o writer

\* GetClusterInfo up to the mu.RLock of GetClusterStats
GetClusterInfo ==
    /\ cmLock = "free"
    /\ IF ~started
       THEN ret' = Ret("GetClusterInfo", "", "stopped") /\ UNCHANGED <<cmLock, nmLock>>
       ELSE /\ nmLock = "free"
            /\ cmLock' = "read"
            /\ nmLock' = StatsLock(0, "")
            /\ ret' = NoRet
    /\ UNCHANGED <<now, nodes, healthData, closed, started, scalers>>

\* a caller of RegisterNode, or the health checker in UpdateNodeStatus, reaches
\* mu.Lock while GetClusterStats holds the read lock
LockWaits(writer) ==
    /\ \E counted \in 0..3 :
          /\ nmLock = StatsLock(counted, "")
          /\ nmLock' = StatsLock(counted, writer)
    /\ \A id \in AllNodeIDs : writer = "UpdateNodeStatus " \o id =>
          id \in DOMAIN healthData /\ healthData[id].update # ""
    /\ ret' = NoRet
    /\ UNCHANGED <<now, nodes, healthData, closed, cmLock, started, scalers>>

\* GetClusterStats calls GetManagerNodes, GetWorkerNodes or GetReadyNodes, each of
\* which takes mu.RLock again: behind a waiting writer the call blocks for ever
GetClusterStatsCount ==
    /\ \E counted \in 0..2, writer \in {""} \cup LockWriters :
          /\ nmLock = StatsLock(counted, writer)
          /\ nmLock' = IF writer = "" THEN StatsLock(counted + 1, "") ELSE "dead"
    /\ ret' = NoRet
    /\ UNCHANGED <<now, nodes, healthData, closed, cmLock, started, scalers>>

\* the deferred RUnlock of GetClusterStats and of GetClusterInfo; a writer that
\* waited makes its call from here on
GetClusterStatsReturn ==
    /\ \E writer \in {""} \cup LockWriters : nmLock = StatsLock(3, writer)
    /\ nmLock' = "free"
    /\ cmLock' = "free"
    /\ ret' = Ret("GetClusterInfo", "", "running")
    /\ UNCHANGED <<now, nodes, healthData, closed, started, scalers>>

NextStats ==
    \/ Budget /\ Initialize /\ UNCHANGED taskVars
    \/ Budget /\ RegisterNode(W) /\ UNCHANGED taskVars
    \/ \E id \in AllNodeIDs : Budget /\ checkNodeHealthDecide(id, "failed") /\ UNCHANGED taskVars
    \/ \E id \in AllNodeIDs : Free /\ checkNodeHealthDecide(id, "passed") /\ UNCHANGED taskVars
    \/ \E id \in AllNodeIDs : Free /\ checkNodeHealthUpdate(id) /\ UNCHANGED taskVars
    \/ Budget /\ GetClusterInfo /\ UNCHANGED taskVars
    \/ \E writer \in LockWriters : Free /\ LockWaits(writer) /\ UNCHANGED taskVars
    \/ Free /\ GetClusterStatsCount /\ UNCHANGED taskVars
    \/ Free /\ GetClusterStatsReturn /\ UNCHANGED taskVars

SpecStats == Init /\ [][NextStats]_vars

\* C38: GetClusterStats never takes the read lock of the node registry again
\* while a writer (RegisterNode, UpdateNodeStatus) waits for the lock, so no
\* interleaving of GetClusterInfo with a writer leaves the lock held for ever.
C38_StatsNoDeadlock ==
    /\ [][ GetClusterStatsCount => \E counted \in 0..2 : nmLock = StatsLock(counted, "") ]_vars
    /\ [](nmLock # "dead")

====
